---- MODULE Spec2Model ----
(***************************************************************************)
(* PhotoCurator: the priority scheduler (core/scheduler.py), the event     *)
(* log (core/event_log.py), the image registry (data/database.py) and the  *)
(* worker / controller that drive them (ui/controller.py).                 *)
(*                                                                         *)
(* Units.  Task.score() is -(priority + age * 0.1) with age in seconds.    *)
(* The scheduler's clock is counted in ticks of 10 s, so that one tick of  *)
(* age weighs exactly one priority point.  decay_factor is a fraction      *)
(* num/DecayDen; priorities are stored multiplied by Scale = DecayDen^     *)
(* MaxDecays, which keeps MaxDecays successive multiplications exact.      *)
(* Every call of time.time() is a separate read of the clock: successive   *)
(* reads inside one operation may differ.                                  *)
(***************************************************************************)
EXTENDS Integers, Sequences, FiniteSets, TLC

\* ------------------------------------------------------------------ bounds
NumIds == 2
MaxTime == 1
MaxCounter == 4
MaxDecays == 2
MaxPriority == 110
MaxItems == 2
MaxBumpLen == 1
MaxEvents == 2
\* The size of the batch the worker asks for.  The worker asks for 8
\* (controller.py:20); the model's worker asks for WorkerBatch.
WorkerBatch == 2
\* The worker's signals the main thread's event queue holds at most.
MaxSignals == 1
\* The threads that call the scheduler at the same time.
NumThreads == 2
\* The scheduler calls the threads make in all.
MaxCalls == 4

Ids == 1..NumIds
\* One image more than a batch of the worker holds.
ManyIds == 1..(WorkerBatch + 1)
None == 0

\* ------------------------------------------------- program constants
DefaultViewportBoost == 10
DefaultIntentBoost == 100
DefaultDecayNum == 19
DecayDen == 20
AgePerTick == 1
Nudge == 1

\* Values the tunables take: the defaults, the low ends of the sliders of
\* the tool panel (viewport 1..50, intent 10..200), and a decay of 0.5.
ViewportBoosts == {1, DefaultViewportBoost}
IntentBoosts == {10, DefaultIntentBoost}
DecayNums == {10, DefaultDecayNum}

\* The configurations a scheduler is constructed with.
DefaultConfig == <<DefaultViewportBoost, DefaultIntentBoost, DefaultDecayNum>>

Configs == {DefaultConfig, <<1, 10, 10>>}

RECURSIVE Pow(_, _)
Pow(b, k) == IF k = 0 THEN 1 ELSE b * Pow(b, k - 1)

Scale == Pow(DecayDen, MaxDecays)

Min(a, b) == IF a <= b THEN a ELSE b

\* ------------------------------------------------------------- the clock
\* One read of time.time() after a read that returned t.
ClockStep(t) == t..Min(t + 1, MaxTime)

\* The values n successive reads can return after a read that returned t.
RECURSIVE ReadSeqs(_, _)
ReadSeqs(t, n) ==
    IF n = 0 THEN {<<>>}
    ELSE UNION {{<<r>> \o rest : rest \in ReadSeqs(r, n - 1)} : r \in ClockStep(t)}

LastRead(t, reads) == IF reads = <<>> THEN t ELSE reads[Len(reads)]

\* ------------------------------------------------------------------ Task
\* Task.__init__: priority 0, timestamp = time.time().
Task(image_id, t) == [image_id |-> image_id, priority |-> 0, timestamp |-> t]

\* Task.score() read at clock value t.
score(task, t) == -(task.priority + (t - task.timestamp) * AgePerTick * Scale)

\* ------------------------------------------------- task_map, a dict
\* task_map is a Python dict: a sequence of tasks in insertion order with
\* at most one task per key.
Keys(task_map) == {task_map[k].image_id : k \in 1..Len(task_map)}

IndexOf(task_map, image_id) ==
    CHOOSE k \in 1..Len(task_map) : task_map[k].image_id = image_id

Get(task_map, image_id) == task_map[IndexOf(task_map, image_id)]

\* task_map[image_id] = task
DictSet(task_map, task) ==
    IF task.image_id \in Keys(task_map)
    THEN [task_map EXCEPT ![IndexOf(task_map, task.image_id)] = task]
    ELSE Append(task_map, task)

\* task_map.pop(image_id)
DictPop(task_map, image_id) ==
    LET k == IndexOf(task_map, image_id)
    IN  SubSeq(task_map, 1, k - 1) \o SubSeq(task_map, k + 1, Len(task_map))

\* ------------------------------------------------------------- the heap
\* heap holds tuples (score, counter, task); heapq orders them by score,
\* then counter.  Counters are unique, so the order is total and heappop
\* returns the least entry whatever the array layout: the heap is the set
\* of its entries.
Entry(sc, c, image_id) == [score |-> sc, counter |-> c, image_id |-> image_id]

LessEntry(a, b) ==
    \/ a.score < b.score
    \/ a.score = b.score /\ a.counter < b.counter

HeapMin(heap) == CHOOSE e \in heap : \A f \in heap \ {e} : LessEntry(e, f)

\* ------------------------------------------------------ PriorityScheduler
\* PriorityScheduler.__init__ with its three keyword arguments.
NewScheduler(viewport_boost, intent_boost, decay_factor) ==
    [ viewport_boost |-> viewport_boost,
      intent_boost   |-> intent_boost,
      decay_factor   |-> decay_factor,
      task_map       |-> <<>>,
      heap           |-> {},
      counter        |-> 0 ]

set_viewport_boost(s, value) == [s EXCEPT !.viewport_boost = value]

set_intent_boost(s, value) == [s EXCEPT !.intent_boost = value]

\* A setter of the decay factor that starts the queue afresh.
set_decay_factor_flush(s, value) ==
    [s EXCEPT !.decay_factor = value, !.task_map = <<>>, !.heap = {}]

set_decay_factor(s, value) == [s EXCEPT !.decay_factor = value]

\* add_task without the membership test of scheduler.py:56-57.
add_task_nodedup(s, image_id, t_init, t_score) ==
    LET task == Task(image_id, t_init)
    IN  [s EXCEPT !.task_map = DictSet(@, task),
                  !.heap = @ \cup {Entry(score(task, t_score), s.counter, image_id)},
                  !.counter = @ + 1]

\* add_task: t_init is the read in Task.__init__, t_score the read in score().
add_task(s, image_id, t_init, t_score) ==
    IF image_id \in Keys(s.task_map) THEN s
    ELSE LET task == Task(image_id, t_init)
         IN  [s EXCEPT !.task_map = DictSet(@, task),
                       !.heap = @ \cup {Entry(score(task, t_score), s.counter, image_id)},
                       !.counter = @ + 1]

\* _rebuild_heap without the heap.clear() of scheduler.py:111.
rebuild_heap_keep(s, reads) ==
    [s EXCEPT !.heap = @ \cup {Entry(score(s.task_map[k], reads[k]), s.counter + k - 1,
                                     s.task_map[k].image_id) : k \in 1..Len(s.task_map)},
              !.counter = @ + Len(s.task_map)]

\* _rebuild_heap: reads[k] is the clock read of the k-th task's score().
rebuild_heap(s, reads) ==
    [s EXCEPT !.heap = {Entry(score(s.task_map[k], reads[k]), s.counter + k - 1,
                              s.task_map[k].image_id) : k \in 1..Len(s.task_map)},
              !.counter = @ + Len(s.task_map)]

\* The loop of bump_to_front_batch over image_ids.
RECURSIVE BumpLoop(_, _, _)
BumpLoop(task_map, image_ids, boost) ==
    IF image_ids = <<>> THEN task_map
    ELSE LET img_id == Head(image_ids)
             bumped == IF img_id \in Keys(task_map)
                       THEN [task_map EXCEPT ![IndexOf(task_map, img_id)].priority =
                                                 @ + boost * Scale]
                       ELSE task_map
         IN  BumpLoop(bumped, Tail(image_ids), boost)

bump_to_front_batch(s, image_ids, reads) ==
    rebuild_heap([s EXCEPT !.task_map = BumpLoop(@, image_ids, s.viewport_boost)], reads)

\* promote without the rebuild of scheduler.py:78.
promote_norebuild(s, image_id, reads) ==
    IF image_id \in Keys(s.task_map)
    THEN [s EXCEPT !.task_map[IndexOf(s.task_map, image_id)].priority =
                       @ + s.intent_boost * Scale]
    ELSE s

\* promote that enqueues the image when it has no outstanding task.
promote_enqueue(s, image_id, reads) ==
    IF image_id \in Keys(s.task_map)
    THEN rebuild_heap([s EXCEPT !.task_map[IndexOf(s.task_map, image_id)].priority =
                                    @ + s.intent_boost * Scale], reads)
    ELSE add_task(s, image_id, 0, 0)

promote(s, image_id, reads) ==
    IF image_id \in Keys(s.task_map)
    THEN rebuild_heap([s EXCEPT !.task_map[IndexOf(s.task_map, image_id)].priority =
                                    @ + s.intent_boost * Scale], reads)
    ELSE s

\* get_next_task that leaves the task it returns in the scheduler.
get_next_task_peek(s) ==
    IF s.heap = {} THEN [s |-> s, task |-> None]
    ELSE [s |-> s, task |-> HeapMin(s.heap).image_id]

\* get_next_task: the popped task's id, or None.
RECURSIVE get_next_task(_)
get_next_task(s) ==
    IF s.heap = {} THEN [s |-> s, task |-> None]
    ELSE LET e  == HeapMin(s.heap)
             s1 == [s EXCEPT !.heap = @ \ {e}]
         IN  IF e.image_id \notin Keys(s1.task_map)
             THEN get_next_task(s1)
             ELSE [s |-> [s1 EXCEPT !.task_map = DictPop(@, e.image_id)],
                   task |-> e.image_id]

\* The loop of get_next_batch with len(out) <= max_items as its test.
RECURSIVE BatchLoopLe(_, _, _)
BatchLoopLe(s, out, max_items) ==
    IF s.heap # {} /\ Len(out) <= max_items
    THEN LET e  == HeapMin(s.heap)
             s1 == [s EXCEPT !.heap = @ \ {e}]
         IN  IF e.image_id \notin Keys(s1.task_map)
             THEN BatchLoopLe(s1, out, max_items)
             ELSE BatchLoopLe([s1 EXCEPT !.task_map = DictPop(@, e.image_id)],
                              Append(out, e.image_id), max_items)
    ELSE [s |-> s, out |-> out]

\* The while loop of get_next_batch.
RECURSIVE BatchLoop(_, _, _)
BatchLoop(s, out, max_items) ==
    IF s.heap # {} /\ Len(out) < max_items
    THEN LET e  == HeapMin(s.heap)
             s1 == [s EXCEPT !.heap = @ \ {e}]
         IN  IF e.image_id \notin Keys(s1.task_map)
             THEN BatchLoop(s1, out, max_items)
             ELSE BatchLoop([s1 EXCEPT !.task_map = DictPop(@, e.image_id)],
                            Append(out, e.image_id), max_items)
    ELSE [s |-> s, out |-> out]

\* get_next_batch that gives out nothing.
get_next_batch_nothing(s, max_items) == [s |-> s, out |-> <<>>]

get_next_batch(s, max_items) == BatchLoop(s, <<>>, max_items)

\* decay whose loop stops after the first task.
decay_first_only(s, reads) ==
    rebuild_heap([s EXCEPT !.task_map =
                     [k \in 1..Len(s.task_map) |->
                         IF k = 1
                         THEN [s.task_map[k] EXCEPT !.priority = (@ * s.decay_factor) \div DecayDen]
                         ELSE s.task_map[k]]],
                 reads)

\* decay: priority *= decay_factor for every task, then one rebuild.
decay(s, reads) ==
    rebuild_heap([s EXCEPT !.task_map =
                     [k \in 1..Len(s.task_map) |->
                         [s.task_map[k] EXCEPT !.priority = (@ * s.decay_factor) \div DecayDen]]],
                 reads)

\* ------------------------------------------------------------- variables
\* sched: the PriorityScheduler object.  now: the value the clock returned
\* last.  decays: the number of decay() calls so far (it bounds the model).
\* last: the latest scheduler call: its name, its argument, the ids that
\* were outstanding when it began and what it returned.
VARIABLES sched, now, decays, last

\* events: EventLog.events.  answer: the latest EventLog call and what it
\* returned.
VARIABLES events, answer

\* records: ImageDatabase.records, the state of each record.  batch: the
\* tasks of the worker's batch not yet processed.  wpc: where the worker
\* thread is in InferenceWorker.run.  signals: the worker's signals posted
\* to the main thread and not yet delivered.  interrupted: whether
\* requestInterruption() was called.  engine: the worker's InferenceEngine.
\* vec: the worker's local x, the vector of the task it works on.  emitted:
\* for each image, the signals the worker emitted for it since it was last
\* dequeued.
VARIABLES records, batch, wpc, signals, interrupted, engine, vec, emitted

\* lock: PriorityScheduler.lock, None or the thread that holds it.  threads:
\* for each thread that calls the scheduler, the call it is in, where it is
\* in it and the call's local variables.
VARIABLES lock, threads

\* calls: the number of scheduler calls the threads have made (it bounds
\* the model).
VARIABLES calls

\* marked: the paths whose ImageRecord has is_marked set.  strategy: the type
\* of StrategyManager._current_strategy.  reply: the latest call of the
\* strategy manager or of the database, with its argument, what it found
\* (the active strategy, the record) and what it returned.  fields: for each
\* path, the timestamps and the visibility data of its ImageRecord.
VARIABLES marked, strategy, reply, fields

schedVars == <<sched, now, decays, last>>
logVars == <<events, answer>>
appVars == <<records, batch, wpc, signals, interrupted, engine, vec, emitted>>
concVars == <<lock, threads, calls>>
userVars == <<marked, strategy, reply, fields>>
vars == <<sched, now, decays, last, events, answer,
          records, batch, wpc, signals, interrupted, engine, vec, emitted,
          lock, threads, calls, marked, strategy, reply, fields>>

\* What a scheduler call, an event-log call, a step of the application and
\* a step of a thread inside a scheduler call leave alone.
SchedFrame == UNCHANGED <<logVars, appVars, concVars, userVars>>
LogFrame == UNCHANGED <<schedVars, appVars, concVars, userVars>>
AppFrame == UNCHANGED <<decays, last, logVars, concVars, userVars>>
ConcFrame == UNCHANGED <<last, logVars, appVars, userVars>>

Outstanding == Keys(sched.task_map)

Call(op, arg, out) == [op |-> op, arg |-> arg, was |-> Outstanding, out |-> out]

\* ------------------------------------- the scheduler and its callers
SchedInit(configs) ==
    /\ \E c \in configs : sched = NewScheduler(c[1], c[2], c[3])
    /\ now = 0
    /\ decays = 0
    /\ last = [op |-> "init", arg |-> None, was |-> {}, out |-> <<>>]

AddTask(image_id) ==
    /\ sched.counter < MaxCounter
    /\ \E t_init \in ClockStep(now) : \E t_score \in ClockStep(t_init) :
          /\ sched' = add_task(sched, image_id, t_init, t_score)
          /\ now' = t_score
    /\ last' = Call("add_task", image_id, <<>>)
    /\ UNCHANGED decays
    /\ SchedFrame

PrioritiesWithin(s) ==
    \A k \in 1..Len(s.task_map) : s.task_map[k].priority <= MaxPriority * Scale

BumpToFrontBatch(image_ids) ==
    /\ sched.counter + Len(sched.task_map) <= MaxCounter
    /\ \E reads \in ReadSeqs(now, Len(sched.task_map)) :
          /\ sched' = bump_to_front_batch(sched, image_ids, reads)
          /\ now' = LastRead(now, reads)
    /\ PrioritiesWithin(sched')
    /\ last' = Call("bump_to_front_batch", image_ids, <<>>)
    /\ UNCHANGED decays
    /\ SchedFrame

Promote(image_id) ==
    /\ sched.counter + Len(sched.task_map) <= MaxCounter
    /\ \E reads \in ReadSeqs(now, IF image_id \in Outstanding
                                  THEN Len(sched.task_map) ELSE 0) :
          /\ sched' = promote(sched, image_id, reads)
          /\ now' = LastRead(now, reads)
    /\ PrioritiesWithin(sched')
    /\ last' = Call("promote", image_id, <<>>)
    /\ UNCHANGED decays
    /\ SchedFrame

Decay ==
    /\ decays < MaxDecays
    /\ sched.counter + Len(sched.task_map) <= MaxCounter
    /\ \E reads \in ReadSeqs(now, Len(sched.task_map)) :
          /\ sched' = decay(sched, reads)
          /\ now' = LastRead(now, reads)
    /\ decays' = decays + 1
    /\ last' = Call("decay", None, <<>>)
    /\ SchedFrame

GetNextTask ==
    LET r == get_next_task(sched)
    IN  /\ sched' = r.s
        /\ last' = Call("get_next_task", None, IF r.task = None THEN <<>> ELSE <<r.task>>)
        /\ UNCHANGED <<now, decays>>
        /\ SchedFrame

GetNextBatch(max_items) ==
    LET r == get_next_batch(sched, max_items)
    IN  /\ sched' = r.s
        /\ last' = Call("get_next_batch", max_items, r.out)
        /\ UNCHANGED <<now, decays>>
        /\ SchedFrame

RECURSIVE SeqsUpTo(_, _)
SeqsUpTo(S, n) ==
    IF n = 0 THEN {<<>>}
    ELSE SeqsUpTo(S, n - 1) \cup
         {Append(q, x) : q \in {p \in SeqsUpTo(S, n - 1) : Len(p) = n - 1}, x \in S}

SchedNext ==
    \/ \E image_id \in Ids : AddTask(image_id)
    \/ \E image_ids \in SeqsUpTo(Ids, MaxBumpLen) : BumpToFrontBatch(image_ids)
    \/ \E image_id \in Ids : BumpToFrontBatch(<<image_id, image_id>>)
    \/ \E image_id \in Ids : Promote(image_id)
    \/ Decay
    \/ GetNextTask
    \/ \E max_items \in 0..MaxItems : GetNextBatch(max_items)

\* ------------------------------------------------------------ EventLog
EventTypes ==
    { "CREATED", "ENQUEUED", "DEQUEUED", "INFER_START", "INFER_END", "WRITE_BACK",
      "VISIBLE_ENTER", "VISIBLE_LEAVE", "USER_MARK", "STRATEGY_CHANGED" }

\* A context is a dict; the keys to_narrative reads are strategy and
\* new_strategy.  The empty dict is the empty function.
EmptyContext == <<>>

Unknown == "unknown"

ContextsOf(event_type) ==
    {EmptyContext} \cup
    (IF event_type = "DEQUEUED" THEN {[strategy |-> "Aggressive"]} ELSE {}) \cup
    (IF event_type = "STRATEGY_CHANGED" THEN {[new_strategy |-> "Aggressive"]} ELSE {})

\* context.get(key, default)
DictGet(context, key, default) ==
    IF key \in DOMAIN context THEN context[key] ELSE default

Event(event_type, image_id, timestamp, context) ==
    [event_type |-> event_type, image_id |-> image_id,
     timestamp |-> timestamp, context |-> context]

\* Event.to_dict
to_dict(e) ==
    [type |-> e.event_type, image_id |-> e.image_id,
     timestamp |-> e.timestamp, context |-> e.context]

\* Event.to_narrative: the sentence is the template of the event's type,
\* filled with the subject and with the strategy named in the context.
to_narrative(e) ==
    CASE e.event_type = "DEQUEUED" ->
            <<e.event_type, e.image_id, DictGet(e.context, "strategy", Unknown)>>
      [] e.event_type = "STRATEGY_CHANGED" ->
            <<e.event_type, None, DictGet(e.context, "new_strategy", Unknown)>>
      [] OTHER -> <<e.event_type, e.image_id, "">>

\* The log's timestamps are counted in units of 0.0001 s, the increment of
\* event_log.py:121.  The wall clock may return any value, also one not
\* later than the previous read.
ClockValues == 0..MaxTime

\* The event types the callers of append pass here: one of each shape of
\* narrative (plain, with a strategy, without a subject) and a user event.
AppendedTypes == {"CREATED", "DEQUEUED", "USER_MARK", "STRATEGY_CHANGED"}

\* EventLog.append with wall-clock reading clock.
\* append without the test of event_log.py:118-121.
append_unadjusted(evs, event_type, image_id, context, clock) ==
    Append(evs, Event(event_type, image_id, clock, context))

\* append that writes the new event over the last one.
append_overwrite(evs, event_type, image_id, context, clock) ==
    IF evs = <<>> THEN <<Event(event_type, image_id, clock, context)>>
    ELSE [evs EXCEPT ![Len(evs)] =
             Event(event_type, image_id, evs[Len(evs)].timestamp + Nudge, context)]

append(evs, event_type, image_id, context, clock) ==
    LET timestamp == IF evs # <<>> /\ clock <= evs[Len(evs)].timestamp
                     THEN evs[Len(evs)].timestamp + Nudge
                     ELSE clock
    IN  Append(evs, Event(event_type, image_id, timestamp, context))

\* A filter that stops at the first event it finds.
Filter_first(evs, field, value) ==
    LET hits == {k \in 1..Len(evs) : evs[k][field] = value}
    IN  IF hits = {} THEN <<>>
        ELSE <<evs[CHOOSE k \in hits : \A m \in hits : k <= m]>>

RECURSIVE Filter(_, _, _)
Filter(evs, field, value) ==
    IF evs = <<>> THEN <<>>
    ELSE (IF Head(evs)[field] = value THEN <<Head(evs)>> ELSE <<>>) \o
         Filter(Tail(evs), field, value)

get_events_by_image(evs, image_id) == Filter(evs, "image_id", image_id)

get_events_by_type(evs, event_type) == Filter(evs, "event_type", event_type)

\* A lifecycle told from the latest event back to the first.
get_lifecycle_latest_first(evs, image_id) ==
    LET mine == get_events_by_image(evs, image_id)
    IN  [k \in 1..Len(mine) |-> to_narrative(mine[Len(mine) + 1 - k])]

get_lifecycle(evs, image_id) ==
    LET mine == get_events_by_image(evs, image_id)
    IN  [k \in 1..Len(mine) |-> to_narrative(mine[k])]

\* export_json: the list written to the file.
export_json(evs) == [k \in 1..Len(evs) |-> to_dict(evs[k])]

\* get_narrative_summary: for every subject of the log, in sorted order, its
\* id followed by its lifecycle.
RECURSIVE SummaryFrom(_, _)
SummaryFrom(evs, image_id) ==
    IF image_id > NumIds THEN <<>>
    ELSE (IF \E k \in 1..Len(evs) : evs[k].image_id = image_id
          THEN <<<<image_id, get_lifecycle(evs, image_id)>>>>
          ELSE <<>>) \o SummaryFrom(evs, image_id + 1)

get_narrative_summary(evs) == SummaryFrom(evs, 1)

Answer(op, value) == [op |-> op, value |-> value]

LogInit ==
    /\ events = <<>>
    /\ answer = Answer("init", <<>>)

LogAppend(event_type, image_id, context) ==
    /\ Len(events) < MaxEvents
    /\ \E clock \in ClockValues :
          events' = append(events, event_type, image_id, context, clock)
    /\ answer' = Answer("append", <<events'[Len(events')]>>)
    /\ LogFrame

GetEventsByImage(image_id) ==
    /\ answer' = Answer("get_events_by_image", get_events_by_image(events, image_id))
    /\ UNCHANGED events
    /\ LogFrame

GetEventsByType(event_type) ==
    /\ answer' = Answer("get_events_by_type", get_events_by_type(events, event_type))
    /\ UNCHANGED events
    /\ LogFrame

GetLifecycle(image_id) ==
    /\ answer' = Answer("get_lifecycle", get_lifecycle(events, image_id))
    /\ UNCHANGED events
    /\ LogFrame

GetNarrativeSummary ==
    /\ answer' = Answer("get_narrative_summary", get_narrative_summary(events))
    /\ UNCHANGED events
    /\ LogFrame

\* An export whose failure leaves the log emptied.
ExportJson_losing ==
    /\ \E written \in BOOLEAN :
          /\ answer' = Answer("export_json", IF written THEN export_json(events) ELSE <<>>)
          /\ events' = IF written THEN events ELSE <<>>
    /\ LogFrame

\* export_json: the file is written, or open/dump raises and the error is
\* logged; nothing is returned either way.
ExportJson ==
    /\ \E written \in BOOLEAN :
          answer' = Answer("export_json", IF written THEN export_json(events) ELSE <<>>)
    /\ UNCHANGED events
    /\ LogFrame

Replay ==
    /\ answer' = Answer("replay", <<>>)
    /\ UNCHANGED events
    /\ LogFrame

LogNext ==
    \/ \E event_type \in AppendedTypes, image_id \in Ids :
          \E context \in ContextsOf(event_type) : LogAppend(event_type, image_id, context)
    \/ \E image_id \in Ids : GetEventsByImage(image_id)
    \/ \E event_type \in EventTypes : GetEventsByType(event_type)
    \/ \E image_id \in Ids : GetLifecycle(image_id)
    \/ GetNarrativeSummary
    \/ ExportJson
    \/ Replay

\* ------------------------------------------- ImageDatabase, ImageRecord
\* A record is modelled by its state; an id without a record is Absent.
Absent == "ABSENT"

\* The states in the order the record documents them (database.py:30).
States == <<"PENDING", "QUEUED", "RUNNING", "DONE">>

Rank(state) == IF state = Absent THEN 0 ELSE CHOOSE k \in 1..Len(States) : States[k] = state

\* An add that starts the record of a registered path afresh.
db_add_reset(recs, path) == [recs EXCEPT ![path] = "PENDING"]

\* ImageDatabase.add: a new record is PENDING; an existing one is kept.
db_add(recs, path) ==
    IF recs[path] # Absent THEN recs ELSE [recs EXCEPT ![path] = "PENDING"]

\* ImageDatabase.set_state -> ImageRecord.set_state
db_set_state(recs, path, state) ==
    IF recs[path] # Absent THEN [recs EXCEPT ![path] = state] ELSE recs

\* ImageDatabase.set_embedding -> ImageRecord.set_embedding
\* set_embedding without the test of database.py:161.
db_set_embedding_create(recs, path) == [recs EXCEPT ![path] = "DONE"]

db_set_embedding(recs, path) ==
    IF recs[path] # Absent THEN [recs EXCEPT ![path] = "DONE"] ELSE recs

\* ------------------------------------------------------ the application
\* The application as app.py wires it: the main thread submits images and
\* runs the slots of the worker's signals; the worker thread runs
\* InferenceWorker.run.  The scheduler's lock makes each scheduler call one
\* step.  The application calls add_task and get_next_batch only, which
\* compare heap counters and never read the age of a task already queued,
\* so the scheduler is kept here up to the order of its counters and with
\* the clock counted back from the latest read.

\* The heap's counters replaced by their ranks.
Renumber(s) ==
    [s EXCEPT !.heap = {[e EXCEPT !.counter =
                             Cardinality({f \in s.heap : f.counter < e.counter})]
                        : e \in s.heap},
              !.counter = Cardinality(s.heap)]

\* The timestamps of s when the clock, which read t, is set back to 0: the
\* age of a queued task, which nothing reads, is not kept.
Rebase(s, t) ==
    LET shift == t
    IN  [s EXCEPT !.task_map =
            [k \in 1..Len(s.task_map) |->
                [s.task_map[k] EXCEPT !.timestamp = IF @ > shift THEN @ - shift ELSE 0]]]

\* One read of time.time() after a read that returned t.
Tick(t) == {t, t + 1}

\* ------------------------------------------------------- the engine
\* A vector by what the engine looks at: its length, and whether it is
\* all zeros.
VectorLen == 512

\* The input dimensions an engine is built with: the one load_weights
\* gives, and another one.
ExpectedIns == {VectorLen, VectorLen \div 2}

InferenceEngine(n) == [expected_in |-> n]

\* A loader that returns nothing for a file it cannot open.
load_and_vectorize_empty(readable) ==
    [len |-> IF readable THEN VectorLen ELSE 0, zero |-> ~readable]

\* load_and_vectorize: the pixels of the resized image, or zeros of the
\* same length when the file cannot be opened.
load_and_vectorize(readable) == [len |-> VectorLen, zero |-> ~readable]

\* The local x of the worker while it holds no vector.
Unbound == [len |-> 0, zero |-> TRUE]

\* An engine without the dimension check.
infer_unchecked(e, v) == "embedding"

\* InferenceEngine.infer: ValueError on a vector of another length than
\* the weights expect, else the normalised embedding; a zero vector is
\* divided by norm + eps and raises nothing.
infer(e, v) ==
    IF v.len # e.expected_in THEN "ValueError" ELSE "embedding"

\* The application with the images ids to submit and an engine built
\* from weights for one of the input dimensions ins.
AppInitWith(ids, ins) ==
    /\ records = [i \in ids |-> Absent]
    /\ batch = <<>>
    /\ wpc = "poll"
    /\ signals = <<>>
    /\ interrupted = FALSE
    /\ engine \in {InferenceEngine(n) : n \in ins}
    /\ vec = Unbound
    /\ emitted = [i \in ids |-> <<>>]

\* The application as main() builds it, before it submits an image.
AppInit == AppInitWith(Ids, {VectorLen})

\* UIController.submit_image
SubmitImage(image_id) ==
    /\ records' = db_add(records, image_id)
    /\ \E t_init \in Tick(now) : \E t_score \in Tick(t_init) :
          /\ sched' = Renumber(Rebase(add_task(sched, image_id, t_init, t_score), t_score))
          /\ now' = 0
    /\ UNCHANGED <<batch, wpc, signals, interrupted, engine, vec, emitted>>
    /\ AppFrame

\* main(): the scheduler and the clock after submit_image for each of ids
\* in turn, from the scheduler and clock st.
RECURSIVE Submitted(_, _)
Submitted(st, ids) ==
    IF ids = <<>> THEN {st}
    ELSE UNION {Submitted(<<Renumber(Rebase(add_task(st[1], Head(ids), t_init, t_score),
                                            t_score)),
                            0>>, Tail(ids))
                : <<t_init, t_score>> \in
                      {<<a, b>> \in (0..2) \X (0..2) :
                          a \in Tick(st[2]) /\ b \in Tick(a)}}

\* InferenceWorker.run, the head of the loop: the while test reads the
\* interruption flag and leaves the loop or enters its body.
WorkerPoll ==
    /\ wpc = "poll"
    /\ wpc' = IF interrupted THEN "stopped" ELSE "pull"
    /\ UNCHANGED <<sched, now, records, batch, signals, interrupted, engine, vec, emitted>>
    /\ AppFrame

\* batch = self.scheduler.get_next_batch(8); an empty batch sleeps and
\* goes back to the while test.
WorkerPull ==
    /\ wpc = "pull"
    /\ LET r == get_next_batch(sched, WorkerBatch)
       IN  /\ sched' = Renumber(r.s)
           /\ batch' = r.out
           /\ emitted' = [i \in DOMAIN emitted |->
                              IF \E k \in 1..Len(r.out) : r.out[k] = i THEN <<>>
                              ELSE emitted[i]]
           /\ wpc' = IF r.out = <<>> THEN "poll" ELSE "emit"
    /\ UNCHANGED <<now, records, signals, interrupted, engine, vec>>
    /\ AppFrame

\* task_started.emit(task.image_id)
WorkerEmitStarted ==
    /\ wpc = "emit"
    /\ Len(signals) < MaxSignals
    /\ signals' = Append(signals, <<"task_started", Head(batch)>>)
    /\ emitted' = [emitted EXCEPT ![Head(batch)] = Append(@, "task_started")]
    /\ wpc' = "load"
    /\ UNCHANGED <<sched, now, records, batch, interrupted, engine, vec>>
    /\ AppFrame

\* vec is x = load_and_vectorize(task.image_path); the file opens or it does not.
WorkerLoad ==
    /\ wpc = "load"
    /\ \E readable \in BOOLEAN : vec' = load_and_vectorize(readable)
    /\ wpc' = "infer"
    /\ UNCHANGED <<sched, now, records, batch, signals, interrupted, engine, emitted>>
    /\ AppFrame

\* A loop that tests the interruption flag after each task.
NextTaskUnlessInterrupted(b) ==
    IF interrupted \/ Tail(b) = <<>> THEN "poll" ELSE "emit"

\* The next position of the loop once the task at the head of the batch
\* is done: the next task of the batch, or the sleep and the loop head.
NextTask(b) == IF Tail(b) = <<>> THEN "poll" ELSE "emit"

\* Without the except clause an exception ends run().
HandlerNone == "stopped"

\* An except clause that tries the task again.
HandlerRetry == "emit"

\* Where an exception raised in the try block goes: to the except clause
\* of the same iteration.
Handler == "except"

\* emb = engine.infer(x), then result_ready.emit(task.image_id, emb); an
\* exception of infer leaves the try block before the emit.
WorkerInfer ==
    /\ wpc = "infer"
    /\ IF infer(engine, vec) = "ValueError"
       THEN /\ wpc' = Handler
            /\ UNCHANGED <<batch, signals, emitted>>
       ELSE /\ Len(signals) < MaxSignals
            /\ signals' = Append(signals, <<"result_ready", Head(batch)>>)
            /\ emitted' = [emitted EXCEPT ![Head(batch)] = Append(@, "result_ready")]
            /\ batch' = Tail(batch)
            /\ wpc' = NextTask(batch)
    /\ vec' = Unbound
    /\ UNCHANGED <<sched, now, records, interrupted, engine>>
    /\ AppFrame

\* except Exception: the error is logged and the loop goes on.
WorkerExcept ==
    /\ wpc = "except"
    /\ batch' = Tail(batch)
    /\ wpc' = NextTask(batch)
    /\ UNCHANGED <<sched, now, records, signals, interrupted, engine, vec, emitted>>
    /\ AppFrame

\* UIController.on_task_started, the slot of task_started.
OnTaskStarted(image_id) ==
    /\ signals # <<>>
    /\ Head(signals) = <<"task_started", image_id>>
    /\ records' = db_set_state(records, image_id, "RUNNING")
    /\ signals' = Tail(signals)
    /\ UNCHANGED <<sched, now, batch, wpc, interrupted, engine, vec, emitted>>
    /\ AppFrame

\* UIController.on_task_finished, the slot of result_ready.
OnTaskFinished(image_id) ==
    /\ signals # <<>>
    /\ Head(signals) = <<"result_ready", image_id>>
    /\ records' = db_set_embedding(records, image_id)
    /\ signals' = Tail(signals)
    /\ UNCHANGED <<sched, now, batch, wpc, interrupted, engine, vec, emitted>>
    /\ AppFrame

\* on_exit: worker.requestInterruption()
RequestInterruption ==
    /\ ~interrupted
    /\ interrupted' = TRUE
    /\ UNCHANGED <<sched, now, records, batch, wpc, signals, engine, vec, emitted>>
    /\ AppFrame

Worker == WorkerPoll \/ WorkerPull \/ WorkerEmitStarted \/ WorkerLoad \/ WorkerInfer \/ WorkerExcept

Deliver == \E image_id \in DOMAIN records : OnTaskStarted(image_id) \/ OnTaskFinished(image_id)

\* The application while it is not asked to exit and infer raises nothing,
\* as with the engine main() builds.
RunNext ==
    \/ \E image_id \in DOMAIN records : SubmitImage(image_id)
    \/ WorkerPoll
    \/ WorkerPull
    \/ WorkerEmitStarted
    \/ WorkerLoad
    \/ WorkerInfer
    \/ \E image_id \in DOMAIN records : OnTaskStarted(image_id)
    \/ \E image_id \in DOMAIN records : OnTaskFinished(image_id)

AppNext ==
    \/ RunNext
    \/ WorkerExcept
    \/ RequestInterruption

\* ------------------------------------------- marks and strategies
StrategyTypes == {"conservative", "aggressive", "explorer"}

\* The strategy object of a type, by its name and its description (the
\* descriptions are sentences; they are told apart by their first words).
StrategyOf(t) ==
    CASE t = "conservative" -> [name |-> "Conservative", description |-> "follows the queue order"]
      [] t = "aggressive" -> [name |-> "Aggressive", description |-> "cares about what you look at"]
      [] t = "explorer" -> [name |-> "Explorer", description |-> "balances diversity and intent"]

\* A timestamp that is None.
Never == -1

\* ImageRecord.__init__: the timestamps and the visibility data of a new
\* record.  enqueued_at, dequeued_at and infer_start_at are left out: no
\* method assigns them.  visible_times is the list of (enter, leave) pairs.
ImageRecord(created_at) ==
    [created_at |-> created_at, infer_end_at |-> Never, write_back_at |-> Never,
     marked_at |-> Never, currently_visible |-> FALSE,
     last_visible_enter_time |-> Never, visible_times |-> <<>>]

\* What is recorded of a call that returns None.
NoReply == [op |-> "none", arg |-> Unknown, was |-> Unknown, out |-> Unknown]

UserInit ==
    /\ marked = {}
    /\ strategy = "conservative"
    /\ reply = NoReply
    /\ fields = [path \in Ids |-> ImageRecord(Never)]

UserFrame == UNCHANGED <<schedVars, logVars, batch, wpc, signals, interrupted, engine, vec,
                         emitted, concVars>>

\* ImageDatabase.add
Register(path) ==
    /\ records' = db_add(records, path)
    /\ fields' = IF records[path] = Absent
                 THEN [fields EXCEPT ![path] = ImageRecord(now)] ELSE fields
    /\ reply' = [NoReply EXCEPT !.op = "add"]
    /\ UNCHANGED <<marked, strategy>>
    /\ UserFrame

\* A mark that sends the image back to the start of its lifecycle.
MarkImage_requeue(path) ==
    /\ marked' = IF records[path] # Absent THEN marked \cup {path} ELSE marked
    /\ fields' = IF records[path] # Absent
                 THEN [fields EXCEPT ![path].marked_at = now] ELSE fields
    /\ records' = db_set_state(records, path, "PENDING")
    /\ reply' = NoReply
    /\ UNCHANGED strategy
    /\ UserFrame

\* ImageDatabase.mark_image -> ImageRecord.mark_as_important
MarkImage(path) ==
    /\ marked' = IF records[path] # Absent THEN marked \cup {path} ELSE marked
    /\ fields' = IF records[path] # Absent
                 THEN [fields EXCEPT ![path].marked_at = now] ELSE fields
    /\ reply' = NoReply
    /\ UNCHANGED <<records, strategy>>
    /\ UserFrame

\* ImageDatabase.unmark_image -> ImageRecord.unmark
UnmarkImage(path) ==
    /\ marked' = IF records[path] # Absent THEN marked \ {path} ELSE marked
    /\ fields' = IF records[path] # Absent
                 THEN [fields EXCEPT ![path].marked_at = Never] ELSE fields
    /\ reply' = NoReply
    /\ UNCHANGED <<records, strategy>>
    /\ UserFrame

\* ImageDatabase.get_marked_images
get_marked_images == marked

\* set_strategy that falls back to the default strategy.
set_strategy_default(current, strategy_type) ==
    IF strategy_type \in StrategyTypes THEN strategy_type ELSE "conservative"

\* StrategyManager.set_strategy: the active strategy after the call, which
\* is also what the call returns; a type that is no key of _strategies
\* gives the active one.
set_strategy(current, strategy_type) ==
    IF strategy_type \in StrategyTypes THEN strategy_type ELSE current

\* A switch of strategy that also hands the scheduler the boosts of the
\* new strategy's defaults.
SetStrategy_applying(strategy_type) ==
    /\ strategy' = set_strategy(strategy, strategy_type)
    /\ reply' = [op |-> "set_strategy", arg |-> strategy_type, was |-> strategy,
                 out |-> strategy']
    /\ sched' = IF strategy' = "aggressive" THEN set_intent_boost(sched, 10) ELSE sched
    /\ UNCHANGED <<records, marked, fields, now, decays, last, logVars, batch, wpc, signals,
                   interrupted, engine, vec, emitted, concVars>>

SetStrategy(strategy_type) ==
    /\ strategy' = set_strategy(strategy, strategy_type)
    /\ reply' = [op |-> "set_strategy", arg |-> strategy_type, was |-> strategy,
                 out |-> strategy']
    /\ UNCHANGED <<records, marked, fields>>
    /\ UserFrame

\* StrategyManager.get_strategy_by_name: the first strategy of _strategies
\* whose name equals name when both are put in lower case, else the active
\* one.  Lower-casing is the identity on the lower-case names asked for
\* here and maps a strategy's name to the string of its type.
get_strategy_by_name(current, name) ==
    LET lower(str) == IF \E t \in StrategyTypes : StrategyOf(t).name = str
                      THEN CHOOSE t \in StrategyTypes : StrategyOf(t).name = str
                      ELSE str
        found == {t \in StrategyTypes : lower(StrategyOf(t).name) = lower(name)}
    IN  IF found # {} THEN CHOOSE t \in found : TRUE ELSE current

GetStrategyByName(name) ==
    /\ reply' = [op |-> "get_strategy_by_name", arg |-> name, was |-> strategy,
                 out |-> get_strategy_by_name(strategy, name)]
    /\ UNCHANGED <<records, marked, strategy, fields>>
    /\ UserFrame

\* ImageRecord.enter_viewport at time t.
\* enter_viewport without the test of database.py:96.
enter_viewport_restamp(rec, t) ==
    [rec EXCEPT !.currently_visible = TRUE, !.last_visible_enter_time = t]

enter_viewport(rec, t) ==
    IF ~rec.currently_visible
    THEN [rec EXCEPT !.currently_visible = TRUE, !.last_visible_enter_time = t]
    ELSE rec

\* ImageRecord.leave_viewport at time t.  An enter time is taken to be
\* truthy: time.time() is not 0.0.
leave_viewport(rec, t) ==
    IF rec.currently_visible
    THEN [rec EXCEPT !.currently_visible = FALSE,
                     !.visible_times =
                         IF rec.last_visible_enter_time # Never
                         THEN Append(@, <<rec.last_visible_enter_time, t>>) ELSE @]
    ELSE rec

\* Statistics that count a queued record as pending too.
get_statistics_waiting(recs, mk) ==
    LET count(states) == Cardinality({path \in DOMAIN recs : recs[path] \in states})
    IN  [total |-> count({States[k] : k \in 1..Len(States)}),
         pending |-> count({"PENDING", "QUEUED"}), queued |-> count({"QUEUED"}),
         running |-> count({"RUNNING"}), done |-> count({"DONE"}),
         marked |-> Cardinality(mk)]

\* ImageDatabase.get_statistics over the records recs, of which those of mk
\* are marked.  A path is a key of the dict when its record is not Absent.
get_statistics(recs, mk) ==
    LET values == {path \in DOMAIN recs : recs[path] # Absent}
        sum(state) == Cardinality({path \in values : recs[path] = state})
    IN  [total |-> Cardinality(values),
         pending |-> sum("PENDING"), queued |-> sum("QUEUED"),
         running |-> sum("RUNNING"), done |-> sum("DONE"),
         marked |-> Cardinality({path \in values : path \in mk})]

\* The database under its callers: the methods of ImageDatabase, and
\* enter_viewport and leave_viewport called on a record got from it.  The
\* states set are the four a record documents; the clock reads now; an
\* image enters and leaves the viewport while its visible_times is empty.
RecordNext ==
    \/ \E path \in Ids : Register(path)
    \/ \E path \in Ids : MarkImage(path)
    \/ \E path \in Ids : UnmarkImage(path)
    \/ \E path \in Ids, state \in {States[k] : k \in 1..Len(States)} :
          /\ records' = db_set_state(records, path, state)
          /\ reply' = NoReply
          /\ UNCHANGED <<marked, strategy, fields>>
          /\ UserFrame
    \/ \E path \in Ids :
          /\ records' = db_set_embedding(records, path)
          /\ fields' = IF records[path] = Absent THEN fields
                       ELSE [fields EXCEPT
                               ![path].infer_end_at = IF @ = Never THEN now ELSE @,
                               ![path].write_back_at = now]
          /\ reply' = NoReply
          /\ UNCHANGED <<marked, strategy>>
          /\ UserFrame
    \/ \E path \in Ids :
          /\ records[path] # Absent
          /\ fields[path].visible_times = <<>>
          /\ fields' = [fields EXCEPT ![path] = enter_viewport(@, now)]
          /\ reply' = NoReply
          /\ UNCHANGED <<records, marked, strategy>>
          /\ UserFrame
    \/ \E path \in Ids :
          /\ records[path] # Absent
          /\ fields[path].visible_times = <<>>
          /\ fields' = [fields EXCEPT ![path] = leave_viewport(@, now)]
          /\ reply' = NoReply
          /\ UNCHANGED <<records, marked, strategy>>
          /\ UserFrame
    \/ /\ reply' = [op |-> "get_statistics", arg |-> Unknown, was |-> Unknown,
                     out |-> get_statistics(records, marked)]
       /\ UNCHANGED <<records, marked, strategy, fields>>
       /\ UserFrame

\* The records of the database as the viewport moves over them while the
\* clock runs: ImageRecord.enter_viewport and leave_viewport read
\* time.time().  calls counts the calls of leave_viewport that found their
\* record visible.
ViewNext ==
    \/ \E path \in Ids : Register(path)
    \/ /\ now < MaxTime
       /\ now' = now + 1
       /\ reply' = NoReply
       /\ UNCHANGED <<sched, decays, last, logVars, appVars, concVars, marked, strategy, fields>>
    \/ \E path \in Ids :
          /\ records[path] # Absent
          /\ fields' = [fields EXCEPT ![path] = enter_viewport(@, now)]
          /\ reply' = [NoReply EXCEPT !.op = "enter_viewport", !.arg = path]
          /\ UNCHANGED <<schedVars, logVars, appVars, concVars, marked, strategy>>
    \/ \E path \in Ids :
          /\ records[path] # Absent
          /\ fields[path].currently_visible => calls < MaxItems
          /\ fields' = [fields EXCEPT ![path] = leave_viewport(@, now)]
          /\ calls' = IF fields[path].currently_visible THEN calls + 1 ELSE calls
          /\ reply' = [NoReply EXCEPT !.op = "leave_viewport", !.arg = path]
          /\ UNCHANGED <<schedVars, logVars, appVars, lock, threads, marked, strategy>>

\* The database under callers that write results back while the clock
\* runs, and that mark and unmark only ids they never registered.
\* ImageRecord.set_embedding reads time.time() once for infer_end_at, when
\* it is not stamped yet, and once for write_back_at.
StampNext ==
    \/ \E path \in Ids : Register(path)
    \/ \E path \in Ids : records[path] = Absent /\ MarkImage(path)
    \/ \E path \in Ids : records[path] = Absent /\ UnmarkImage(path)
    \/ \E path \in Ids, state \in {States[k] : k \in 1..Len(States)} :
          /\ calls < MaxCalls
          /\ calls' = calls + 1
          /\ records' = db_set_state(records, path, state)
          /\ reply' = [NoReply EXCEPT !.op = "set_state", !.arg = path]
          /\ UNCHANGED <<schedVars, logVars, batch, wpc, signals, interrupted, engine, vec,
                         emitted, lock, threads, marked, strategy, fields>>
    \/ \E path \in Ids :
          \E t_end \in (IF records[path] # Absent /\ fields[path].infer_end_at = Never
                        THEN ClockStep(now) ELSE {now}) :
          \E t_back \in (IF records[path] # Absent THEN ClockStep(t_end) ELSE {now}) :
             /\ calls < MaxCalls
             /\ calls' = calls + 1
             /\ records' = db_set_embedding(records, path)
             /\ fields' = IF records[path] = Absent THEN fields
                          ELSE [fields EXCEPT
                                  ![path].infer_end_at = IF @ = Never THEN t_end ELSE @,
                                  ![path].write_back_at = t_back]
             /\ now' = t_back
             /\ reply' = [NoReply EXCEPT !.op = "set_embedding", !.arg = path]
             /\ UNCHANGED <<sched, decays, last, logVars, batch, wpc, signals, interrupted,
                            engine, vec, emitted, lock, threads, marked, strategy>>

\* A boost that gives the Aggressive strategy the weights of the Explorer.
get_priority_boost_halved(strategy_type, image_id, context, rnd) ==
    LET is_marked == DictGet(context, "is_marked", FALSE)
        is_visible == DictGet(context, "is_visible", FALSE)
    IN  IF strategy_type = "conservative" THEN DictGet(context, "queue_age", 0) * 10
        ELSE (IF is_marked THEN DictGet(context, "intent_boost", 100) * 50 ELSE 0)
             + (IF is_visible THEN DictGet(context, "viewport_boost", 30) * 50 ELSE 0)
             + DictGet(context, "queue_age", 0) * 8 + rnd

\* A Conservative strategy that looks at the viewport.
get_priority_boost_viewport(strategy_type, image_id, context, rnd) ==
    DictGet(context, "queue_age", 0) * 10
    + (IF DictGet(context, "is_visible", FALSE)
       THEN DictGet(context, "viewport_boost", 30) * 100 ELSE 0)

\* Strategy.get_priority_boost of the strategy of type strategy_type, in
\* hundredths: context.get reads each key with its default, the age of
\* the task in the queue counts 0.1, 0.05 or 0.08 a second, and rnd is what
\* random.uniform(0, 10) returned to the Explorer.
get_priority_boost(strategy_type, image_id, context, rnd) ==
    LET is_marked == DictGet(context, "is_marked", FALSE)
        is_visible == DictGet(context, "is_visible", FALSE)
        intent_boost == DictGet(context, "intent_boost", 100)
        viewport_boost == DictGet(context, "viewport_boost", 30)
        queue_age == DictGet(context, "queue_age", 0)
    IN  CASE strategy_type = "conservative" -> queue_age * 10
          [] strategy_type = "aggressive" ->
                (IF is_marked THEN intent_boost * 100 ELSE 0)
                + (IF is_visible THEN viewport_boost * 100 ELSE 0)
                + queue_age * 5
          [] strategy_type = "explorer" ->
                (IF is_marked THEN intent_boost * 50 ELSE 0)
                + (IF is_visible THEN viewport_boost * 50 ELSE 0)
                + queue_age * 8 + rnd

\* The strategy manager next to the scheduler: the caller switches the
\* strategy, asks the active strategy for the boost of an image with the
\* scheduler's two boosts in the context, submits tasks and takes them
\* out.
StrategyNext ==
    \/ \E strategy_type \in StrategyTypes \cup {Unknown} : SetStrategy(strategy_type)
    \/ \E image_id \in Ids, is_visible \in BOOLEAN, is_marked \in BOOLEAN :
          LET context == [viewport_boost |-> sched.viewport_boost,
                          intent_boost |-> sched.intent_boost,
                          is_visible |-> is_visible, is_marked |-> is_marked,
                          queue_age |-> now]
          IN  /\ reply' = [op |-> "get_priority_boost", arg |-> context, was |-> strategy,
                           out |-> get_priority_boost(strategy, image_id, context, 0)]
              /\ UNCHANGED <<records, marked, strategy, fields>>
              /\ UserFrame
    \/ \E image_id \in Ids : AddTask(image_id)
    \/ GetNextTask
    \/ \E max_items \in 1..MaxItems : GetNextBatch(max_items)

\* The database and the strategy manager under their callers; none of
\* their methods appends to an event log, and nothing else does here.
UserNext ==
    \/ \E path \in Ids : Register(path)
    \/ \E path \in Ids : MarkImage(path)
    \/ \E path \in Ids : UnmarkImage(path)
    \/ \E strategy_type \in StrategyTypes \cup {Unknown} : SetStrategy(strategy_type)
    \/ \E name \in {"Aggressive", "explorer", Unknown} : GetStrategyByName(name)
    \/ \E image_id \in Ids, rnd \in {0, 1000} :
       \E context \in {EmptyContext} \cup
                      [viewport_boost : ViewportBoosts, intent_boost : IntentBoosts,
                       is_visible : BOOLEAN, is_marked : BOOLEAN, queue_age : 0..MaxTime] :
          /\ rnd # 0 => strategy = "explorer"
          /\ reply' = [op |-> "get_priority_boost", arg |-> context, was |-> strategy,
                       out |-> get_priority_boost(strategy, image_id, context, rnd)]
          /\ UNCHANGED <<records, marked, strategy, fields>>
          /\ UserFrame

\* --------------------------------------- the scheduler under its lock
\* Several threads call the scheduler.  A call is modelled statement by
\* statement: the thread enters the with-block when it gets the lock, runs
\* the statements of the method one step at a time on the shared object,
\* and leaves the with-block.  Other threads run between any two steps.
Threads == 1..NumThreads

Setters == {"set_viewport_boost", "set_intent_boost", "set_decay_factor"}

\* A thread outside any call.  snap is the scheduler as the call found it
\* when it entered; todo, reads and out are the call's locals: what its
\* loop has still to visit, the clock values it read and what it returns.
IdleThread ==
    [at |-> "idle", op |-> "none", arg |-> None, snap |-> None,
     todo |-> <<>>, reads |-> <<>>, out |-> <<>>]

\* ------------------------------------------- the event log, two callers
\* EventLog has no lock (event_log.py:99 leaves _lock None).  Every thread
\* calls append: first it reads the wall clock and the last timestamp and
\* builds its event (event_log.py:117-128), then, as a step of its own, it
\* appends the event to the list (event_log.py:129).  Thread 1 is the
\* worker and records DEQUEUED, the other threads record USER_MARK.
RaceNext ==
    \E t \in Threads :
       \/ /\ threads[t].at = "idle"
          /\ Len(events) + Cardinality({u \in Threads : threads[u].at # "idle"}) < MaxEvents
          /\ \E image_id \in Ids, clock \in ClockValues :
                LET event_type == IF t = 1 THEN "DEQUEUED" ELSE "USER_MARK"
                    built == append(events, event_type, image_id, EmptyContext, clock)
                IN  threads' = [threads EXCEPT ![t] =
                        [IdleThread EXCEPT !.at = "append", !.op = "append",
                                           !.arg = image_id, !.snap = built[Len(built)]]]
          /\ UNCHANGED <<lock, calls, logVars, schedVars, appVars, userVars>>
       \/ /\ threads[t].at = "append"
          /\ events' = Append(events, threads[t].snap)
          /\ answer' = Answer("append", <<threads[t].snap>>)
          /\ threads' = [threads EXCEPT ![t] = IdleThread]
          /\ UNCHANGED <<lock, calls, schedVars, appVars, userVars>>

\* The calls a thread makes; bump_to_front_batch is called with no id and
\* with every id.
ThreadCalls ==
    {<<"add_task", i>> : i \in Ids} \cup
    {<<"bump_to_front_batch", q>> : q \in {<<>>, [k \in Ids |-> k]}} \cup
    {<<"promote", i>> : i \in Ids} \cup
    {<<"decay", None>>, <<"get_next_task", None>>} \cup
    {<<"get_next_batch", n>> : n \in 1..MaxItems} \cup
    {<<"set_viewport_boost", v>> : v \in ViewportBoosts} \cup
    {<<"set_intent_boost", v>> : v \in IntentBoosts} \cup
    {<<"set_decay_factor", v>> : v \in DecayNums}

\* Setters that assign without taking the lock.
LockedButSetters(op) == op \notin Setters

\* Every method of the scheduler runs in `with self.lock`.
Locked(op) == TRUE

\* An acquire that does not wait for the holder.
CanEnterAlways(l) == TRUE

\* threading.Lock.acquire gets the lock only when no thread holds it.
CanEnter(l) == l = None

\* A with-block that keeps the lock when it is left.
with_exit_held(l, t) == l

\* Leaving the with-block releases the lock.
with_exit(l, t) == IF l = t THEN None ELSE l

\* The first statement of each method inside its with-block.
FirstAt(op) ==
    CASE op \in {"add_task", "promote"} -> "test"
      [] op \in {"bump_to_front_batch", "decay"} -> "loop"
      [] op \in {"get_next_task", "get_next_batch"} -> "pop"
      [] OTHER -> "set"

\* What the loop of a call visits: the ids passed to bump_to_front_batch,
\* the values of task_map for decay.
LoopOver(s, op, arg) ==
    CASE op = "bump_to_front_batch" -> arg
      [] op = "decay" -> [k \in 1..Len(s.task_map) |-> s.task_map[k].image_id]
      [] OTHER -> <<>>

\* The model's budget lets the call run: counters, priorities and the
\* number of decays stay within the bounds.
WithinBudget(s, op, arg) ==
    /\ op = "add_task" => s.counter < MaxCounter
    /\ op \in {"bump_to_front_batch", "promote", "decay"} =>
          s.counter + Len(s.task_map) <= MaxCounter
    /\ op = "decay" => decays < MaxDecays
    /\ op = "bump_to_front_batch" =>
          \A k \in 1..Len(s.task_map) :
             s.task_map[k].priority + Len(arg) * s.viewport_boost * Scale <= MaxPriority * Scale
    /\ op = "promote" =>
          \A k \in 1..Len(s.task_map) :
             s.task_map[k].priority + s.intent_boost * Scale <= MaxPriority * Scale

ConcInit ==
    /\ lock = None
    /\ threads = [t \in Threads |-> IdleThread]
    /\ calls = 0

\* A thread calls a method: at `with self.lock` it waits for the lock, gets
\* it and enters the with-block.
Enter(t, op, arg) ==
    /\ threads[t].at = "idle"
    /\ calls < MaxCalls
    /\ calls' = calls + 1
    /\ Locked(op) => CanEnter(lock)
    /\ WithinBudget(sched, op, arg)
    /\ lock' = IF Locked(op) THEN t ELSE lock
    /\ threads' = [threads EXCEPT ![t] = [IdleThread EXCEPT !.at = FirstAt(op), !.op = op,
                                                            !.arg = arg, !.snap = sched,
                                                            !.todo = LoopOver(sched, op, arg)]]
    /\ decays' = IF op = "decay" THEN decays + 1 ELSE decays
    /\ UNCHANGED <<sched, now>>
    /\ ConcFrame

\* add_task: `if image_id in self.task_map: return`;
\* promote: `if image_id in self.task_map: priority += self.intent_boost`.
Test(t) ==
    LET l == threads[t]
        found == l.arg \in Keys(sched.task_map)
    IN  /\ l.at = "test"
        /\ IF l.op = "add_task"
           THEN /\ threads' = [threads EXCEPT ![t].at = IF found THEN "exit" ELSE "push"]
                /\ UNCHANGED sched
           ELSE /\ threads' = [threads EXCEPT ![t].at = IF found THEN "rebuild" ELSE "exit"]
                /\ sched' = IF found
                            THEN [sched EXCEPT !.task_map[IndexOf(sched.task_map, l.arg)].priority =
                                                   @ + sched.intent_boost * Scale]
                            ELSE sched
        /\ UNCHANGED <<now, decays, lock, calls>>
        /\ ConcFrame

\* add_task: Task(image_id), task_map[image_id] = task, heappush.
Push(t) ==
    LET l == threads[t]
    IN  /\ l.at = "push"
        /\ \E t_init \in ClockStep(now) : \E t_score \in ClockStep(t_init) :
              LET task == Task(l.arg, t_init)
              IN  /\ sched' = [sched EXCEPT
                                  !.task_map = DictSet(@, task),
                                  !.heap = @ \cup {Entry(score(task, t_score), sched.counter, l.arg)},
                                  !.counter = @ + 1]
                  /\ now' = t_score
                  /\ threads' = [threads EXCEPT ![t].at = "exit", ![t].reads = <<t_init, t_score>>]
        /\ UNCHANGED <<decays, lock, calls>>
        /\ ConcFrame

\* One iteration of the for loop of bump_to_front_batch or of decay, which
\* reads the parameter anew, or the end of the loop.
Loop(t) ==
    LET l == threads[t]
    IN  /\ l.at = "loop"
        /\ IF l.todo = <<>>
           THEN /\ threads' = [threads EXCEPT ![t].at = "rebuild"]
                /\ UNCHANGED sched
           ELSE /\ threads' = [threads EXCEPT ![t].todo = Tail(l.todo)]
                /\ sched' = IF Head(l.todo) \notin Keys(sched.task_map) THEN sched
                            ELSE IF l.op = "decay"
                            THEN [sched EXCEPT !.task_map[IndexOf(sched.task_map, Head(l.todo))].priority =
                                                   (@ * sched.decay_factor) \div DecayDen]
                            ELSE [sched EXCEPT !.task_map[IndexOf(sched.task_map, Head(l.todo))].priority =
                                                   @ + sched.viewport_boost * Scale]
        /\ UNCHANGED <<now, decays, lock, calls>>
        /\ ConcFrame

\* self._rebuild_heap()
Rebuild(t) ==
    LET l == threads[t]
    IN  /\ l.at = "rebuild"
        /\ \E reads \in ReadSeqs(now, Len(sched.task_map)) :
              /\ sched' = rebuild_heap(sched, reads)
              /\ now' = LastRead(now, reads)
              /\ threads' = [threads EXCEPT ![t].at = "exit", ![t].reads = reads]
        /\ UNCHANGED <<decays, lock, calls>>
        /\ ConcFrame

\* One iteration of the while loop of get_next_task or get_next_batch:
\* heappop, skip the entry of a task no longer in task_map, else pop the
\* task from task_map and return it or append it to out.
Pop(t) ==
    LET l == threads[t]
        more == sched.heap # {} /\ (l.op = "get_next_batch" => Len(l.out) < l.arg)
        e == HeapMin(sched.heap)
    IN  /\ l.at = "pop"
        /\ IF ~more
           THEN /\ threads' = [threads EXCEPT ![t].at = "exit"]
                /\ UNCHANGED sched
           ELSE IF e.image_id \notin Keys(sched.task_map)
           THEN /\ sched' = [sched EXCEPT !.heap = @ \ {e}]
                /\ UNCHANGED threads
           ELSE /\ sched' = [sched EXCEPT !.heap = @ \ {e}, !.task_map = DictPop(@, e.image_id)]
                /\ threads' = [threads EXCEPT
                                  ![t].out = Append(@, e.image_id),
                                  ![t].at = IF l.op = "get_next_task" THEN "exit" ELSE "pop"]
        /\ UNCHANGED <<now, decays, lock, calls>>
        /\ ConcFrame

\* The assignment of a setter.
Set(t) ==
    LET l == threads[t]
    IN  /\ l.at = "set"
        /\ sched' = CASE l.op = "set_viewport_boost" -> set_viewport_boost(sched, l.arg)
                      [] l.op = "set_intent_boost" -> set_intent_boost(sched, l.arg)
                      [] OTHER -> set_decay_factor(sched, l.arg)
        /\ threads' = [threads EXCEPT ![t].at = "exit"]
        /\ UNCHANGED <<now, decays, lock, calls>>
        /\ ConcFrame

\* The thread leaves the with-block and the method returns.
Exit(t) ==
    /\ threads[t].at = "exit"
    /\ lock' = with_exit(lock, t)
    /\ threads' = [threads EXCEPT ![t] = IdleThread]
    /\ UNCHANGED <<sched, now, decays, calls>>
    /\ ConcFrame

ConcNext ==
    \/ \E t \in Threads : \E c \in ThreadCalls : Enter(t, c[1], c[2])
    \/ \E t \in Threads : Test(t)
    \/ \E t \in Threads : Push(t)
    \/ \E t \in Threads : Loop(t)
    \/ \E t \in Threads : Rebuild(t)
    \/ \E t \in Threads : Pop(t)
    \/ \E t \in Threads : Set(t)
    \/ \E t \in Threads : Exit(t)

\* -------------------------------------------------------- specifications
\* The scheduler driven by its callers.
Init == SchedInit(Configs) /\ LogInit /\ AppInit /\ ConcInit /\ UserInit

Next == SchedNext

Spec == Init /\ [][Next]_vars

\* The event log driven by its callers.
LogSpecInit == SchedInit({DefaultConfig}) /\ LogInit /\ AppInit /\ ConcInit /\ UserInit

LogSpec == LogSpecInit /\ [][LogNext]_vars

\* The event log with several threads appending.
RaceSpec == LogSpecInit /\ [][RaceNext]_vars

\* The log of one image that goes through its whole lifecycle while marks of
\* this and other images are logged in between, and the three queries that
\* filter the log.  The wall clock stands still, so that append spaces the
\* timestamps itself.
Lifecycle ==
    << "CREATED", "ENQUEUED", "DEQUEUED", "INFER_START", "INFER_END", "WRITE_BACK" >>

LifeNext ==
    \/ /\ Len(events) <= Len(Lifecycle)
       /\ \E image_id \in Ids :
             LET done == Len(get_events_by_image(events, image_id))
                         - Len(Filter(get_events_by_image(events, image_id),
                                      "event_type", "USER_MARK"))
                 types == {"USER_MARK"} \cup
                          (IF image_id = 1 /\ done < Len(Lifecycle)
                           THEN {Lifecycle[done + 1]} ELSE {})
             IN  \E event_type \in types : \E context \in ContextsOf(event_type) :
                    events' = append(events, event_type, image_id, context, 0)
       /\ answer' = Answer("append", <<events'[Len(events')]>>)
       /\ LogFrame
    \/ \E image_id \in Ids : GetEventsByImage(image_id)
    \/ \E event_type \in EventTypes : GetEventsByType(event_type)
    \/ \E image_id \in Ids : GetLifecycle(image_id)

LifeSpec == LogSpecInit /\ [][LifeNext]_vars

\* The application: controller, worker and database around the scheduler.
AppSpecInit ==
    SchedInit({DefaultConfig}) /\ LogInit /\ AppInitWith(Ids, ExpectedIns) /\ ConcInit
    /\ UserInit

AppSpec == AppSpecInit /\ [][AppNext]_vars

\* The application that is never asked to exit, with a worker thread that
\* is scheduled and a main thread whose event loop delivers the signals.
FairInit ==
    SchedInit({DefaultConfig}) /\ LogInit /\ AppInitWith(ManyIds, {VectorLen}) /\ ConcInit
    /\ UserInit

FairSpec == FairInit /\ [][RunNext]_vars /\ WF_vars(Worker) /\ WF_vars(Deliver)

\* The application from the moment main() has submitted its images and
\* starts the worker: nothing is submitted any more, the worker runs, the
\* event loop delivers its signals, and the user may quit.
MainInit ==
    /\ \E st \in Submitted(<<NewScheduler(DefaultViewportBoost, DefaultIntentBoost,
                                           DefaultDecayNum), 0>>,
                            [k \in ManyIds |-> k]) :
          sched = st[1] /\ now = st[2]
    /\ decays = 0
    /\ last = [op |-> "init", arg |-> None, was |-> {}, out |-> <<>>]
    /\ LogInit
    /\ records = [i \in ManyIds |-> "PENDING"]
    /\ batch = <<>>
    /\ wpc = "poll"
    /\ signals = <<>>
    /\ interrupted = FALSE
    /\ engine \in {InferenceEngine(n) : n \in ExpectedIns}
    /\ vec = Unbound
    /\ emitted = [i \in ManyIds |-> <<>>]
    /\ ConcInit
    /\ UserInit

MainNext ==
    \/ WorkerPoll
    \/ WorkerPull
    \/ WorkerEmitStarted
    \/ WorkerLoad
    \/ WorkerInfer
    \/ WorkerExcept
    \/ \E image_id \in DOMAIN records : OnTaskStarted(image_id)
    \/ \E image_id \in DOMAIN records : OnTaskFinished(image_id)
    \/ RequestInterruption

MainSpec == MainInit /\ [][MainNext]_vars /\ WF_vars(Worker) /\ WF_vars(Deliver)

\* The database and the strategy manager under their callers.
UserSpec == LogSpecInit /\ [][UserNext]_vars

\* The database under its callers.
RecordSpec == LogSpecInit /\ [][RecordNext]_vars

\* The records while results are written back.
StampSpec == LogSpecInit /\ [][StampNext]_vars

\* The strategy manager and the scheduler under one caller.
StrategySpec == LogSpecInit /\ [][StrategyNext]_vars

\* The records under a moving viewport.
ViewSpec == LogSpecInit /\ [][ViewNext]_vars

\* The scheduler called by several threads at once.
ConcSpec == LogSpecInit /\ [][ConcNext]_vars

\* ------------------------------------------------- scheduler properties
\* The order in which the outstanding tasks of s would be dequeued.
DequeueOrder(s) == get_next_batch(s, Len(s.task_map)).out

Position(seq, x) == CHOOSE k \in 1..Len(seq) : seq[k] = x

Before(seq, x, y) == Position(seq, x) < Position(seq, y)

NoRepeat(seq) == \A j, k \in 1..Len(seq) : j # k => seq[j] # seq[k]

\* Clock reads that all return the current value.
SameReads(n) == [k \in 1..n |-> now]

\* C1: there is at most one outstanding task per image id (one task in
\* task_map and one live heap entry), and add_task of an id that is
\* already outstanding changes nothing.
C1_OneTaskPerId ==
    /\ \A i \in Ids :
          Cardinality({k \in 1..Len(sched.task_map) : sched.task_map[k].image_id = i}) <= 1
    /\ \A i \in Outstanding : Cardinality({e \in sched.heap : e.image_id = i}) <= 1
    /\ \A i \in Outstanding : \A t_init \in ClockStep(now) : \A t_score \in ClockStep(t_init) :
          add_task(sched, i, t_init, t_score) = sched

\* add_task was called for an id that was outstanding, and the id still
\* has its one task.
C1_Witness ==
    /\ last.op = "add_task"
    /\ last.arg \in last.was
    /\ Cardinality({e \in sched.heap : e.image_id = last.arg}) = 1
    /\ Len(sched.task_map) >= 2

\* C2: get_next_batch(n) returns at most n tasks, each outstanding when the
\* call began, none twice, and none outstanding when the call ends.
C2_BatchWithinBound ==
    last.op = "get_next_batch" =>
        /\ Len(last.out) <= last.arg
        /\ \A k \in 1..Len(last.out) : last.out[k] \in last.was
        /\ NoRepeat(last.out)
        /\ \A k \in 1..Len(last.out) : last.out[k] \notin Outstanding

\* get_next_batch(n) was called with more than n tasks outstanding and
\* returned n of them.
C2_Witness ==
    /\ last.op = "get_next_batch"
    /\ last.arg >= 1
    /\ Cardinality(last.was) > last.arg
    /\ Len(last.out) = last.arg
    /\ Cardinality(Outstanding) = Cardinality(last.was) - last.arg

\* C3: of two outstanding tasks of equal priority and equal age (the same
\* creation timestamp) the one submitted earlier is dequeued first; add_task
\* of three ids followed by get_next_batch(3) returns them in that order.
C3_FifoAmongEqual ==
    /\ \A j, k \in 1..Len(sched.task_map) :
          ( /\ j < k
            /\ sched.task_map[j].priority = sched.task_map[k].priority
            /\ sched.task_map[j].timestamp = sched.task_map[k].timestamp )
          => Before(DequeueOrder(sched), sched.task_map[j].image_id,
                    sched.task_map[k].image_id)
    /\ ( /\ last.op = "add_task"
         /\ sched.counter = Len(sched.task_map)
         /\ decays = 0 )
       => DequeueOrder(sched) = [k \in 1..Len(sched.task_map) |-> sched.task_map[k].image_id]

\* C4: promote(b) puts b ahead of every peer that had b's priority and age,
\* and with the default intent_boost b is the next task dequeued when no
\* other task had a higher priority (the clock moves by less than a boost
\* is worth while the heap is rebuilt).
C4_PromoteAhead ==
    \A b \in Outstanding : \A reads \in ReadSeqs(now, Len(sched.task_map)) :
        LET s2 == promote(sched, b, reads)
            tb == Get(sched.task_map, b)
        IN  /\ \A a \in Outstanding \ {b} :
                  LET ta == Get(sched.task_map, a)
                  IN  (ta.priority = tb.priority /\ ta.timestamp = tb.timestamp)
                      => Before(DequeueOrder(s2), b, a)
            /\ ( /\ sched.intent_boost = DefaultIntentBoost
                 /\ \A a \in Outstanding : Get(sched.task_map, a).priority <= tb.priority )
               => get_next_task(s2).task = b

\* promote was called for the task submitted last, and it is now first.
C4_Witness ==
    /\ last.op = "promote"
    /\ last.arg \in Outstanding
    /\ Len(sched.task_map) >= 2
    /\ sched.task_map[Len(sched.task_map)].image_id = last.arg
    /\ \A k \in 1..Len(sched.task_map) : sched.task_map[k].timestamp = 0
    /\ DequeueOrder(sched)[1] = last.arg

\* k successive calls of decay with no boost in between.
RECURSIVE DecayTimes(_, _)
DecayTimes(s, k) == IF k = 0 THEN s ELSE decay(DecayTimes(s, k - 1), SameReads(Len(s.task_map)))

\* C5: after k calls of decay() every outstanding task has its priority
\* multiplied by decay_factor^k = (num/DecayDen)^k, exactly, and the same
\* tasks are outstanding.
C5_DecayGeometric ==
    \A k \in 0..(MaxDecays - decays) :
        LET s2 == DecayTimes(sched, k)
        IN  /\ Len(s2.task_map) = Len(sched.task_map)
            /\ \A j \in 1..Len(sched.task_map) :
                  /\ s2.task_map[j].image_id = sched.task_map[j].image_id
                  /\ sched.task_map[j].priority % Pow(DecayDen, k) = 0
                  /\ s2.task_map[j].priority =
                        (sched.task_map[j].priority \div Pow(DecayDen, k)) *
                        Pow(sched.decay_factor, k)

\* decay() was called once with factor 0.95 on a task of priority 100: the
\* task has priority 95.
C5_Witness ==
    /\ last.op = "decay"
    /\ decays = 1
    /\ sched.decay_factor = DefaultDecayNum
    /\ \E j \in 1..Len(sched.task_map) : sched.task_map[j].priority = 95 * Scale

\* ------------------------------------------------- event log properties
\* C6: the timestamps of the log are strictly increasing in log order,
\* whatever the wall clock returned to append.
C6_TimestampsIncreasing ==
    \A k \in 1..(Len(events) - 1) : events[k].timestamp < events[k + 1].timestamp

\* An event was appended when the wall clock had gone back behind the
\* previous event's timestamp, and it was stamped just after that event.
C6_Witness ==
    /\ answer.op = "append"
    /\ Len(events) >= 2
    /\ events[1].timestamp = MaxTime
    /\ events[Len(events)].timestamp = events[Len(events) - 1].timestamp + Nudge

\* C7: the log is append-only: append adds exactly one event at the end,
\* and no operation of the log alters, reorders or removes an event that is
\* in it, so the log before a step is a prefix of the log after it.
C7_AppendOnly ==
    [][ /\ Len(events') >= Len(events)
        /\ SubSeq(events', 1, Len(events)) = events
        /\ answer'.op = "append" => Len(events') = Len(events) + 1
        /\ answer'.op # "append" => events' = events ]_vars

\* A query was answered from a log of several events of one subject, and
\* the log is still the one that was appended.
C7_Witness ==
    /\ answer.op = "get_lifecycle"
    /\ Len(answer.value) >= 2
    /\ Len(events) = MaxEvents

\* ------------------------------------------------- application properties
\* C8: the state of a record only moves forward along PENDING, QUEUED,
\* RUNNING, DONE: no step takes a record to an earlier state, and a record
\* that is DONE stays DONE.
C8_StateForwardOnly ==
    [][\A i \in Ids : Rank(records'[i]) >= Rank(records[i])]_vars

\* C9: a record goes through PENDING, QUEUED, RUNNING, DONE without skipping
\* a state: a step that moves a record forward moves it to the next state.
C9_NoStateSkipped ==
    [][\A i \in Ids : Rank(records'[i]) > Rank(records[i])
                        => Rank(records'[i]) = Rank(records[i]) + 1]_vars

\* C10: while the worker runs, every task that is outstanding is eventually
\* dequeued.
C10_NoStarvation ==
    \A i \in ManyIds : (i \in Outstanding) ~> (i \notin Outstanding)

\* ------------------------------------------------- concurrency properties
\* The scheduler and the return value of the call of l, had it run alone on
\* the scheduler it found when it entered.
Sequential(l) ==
    CASE l.op = "add_task" ->
            [s |-> IF l.arg \in Keys(l.snap.task_map) THEN l.snap
                   ELSE add_task(l.snap, l.arg, l.reads[1], l.reads[2]),
             out |-> <<>>]
      [] l.op = "bump_to_front_batch" ->
            [s |-> bump_to_front_batch(l.snap, l.arg, l.reads), out |-> <<>>]
      [] l.op = "promote" -> [s |-> promote(l.snap, l.arg, l.reads), out |-> <<>>]
      [] l.op = "decay" -> [s |-> decay(l.snap, l.reads), out |-> <<>>]
      [] l.op = "get_next_task" ->
            LET r == get_next_task(l.snap)
            IN  [s |-> r.s, out |-> IF r.task = None THEN <<>> ELSE <<r.task>>]
      [] l.op = "get_next_batch" -> get_next_batch(l.snap, l.arg)
      [] l.op = "set_viewport_boost" -> [s |-> set_viewport_boost(l.snap, l.arg), out |-> <<>>]
      [] l.op = "set_intent_boost" -> [s |-> set_intent_boost(l.snap, l.arg), out |-> <<>>]
      [] l.op = "set_decay_factor" -> [s |-> set_decay_factor(l.snap, l.arg), out |-> <<>>]

\* C11: scheduler calls made by several threads run one at a time: at most
\* one thread is inside a method body and it holds the lock; when a call
\* ends, the scheduler and the call's return value are those of the call
\* run alone on the scheduler it found, so the calls take effect in the
\* order they got the lock; a task a dequeue returns was outstanding and
\* is no longer, and no id ever has two tasks or two heap entries.
C11_CallsAreAtomic ==
    /\ Cardinality({t \in Threads : threads[t].at # "idle"}) <= 1
    /\ \A t \in Threads : threads[t].at # "idle" => lock = t
    /\ \A i \in Ids :
          /\ Cardinality({k \in 1..Len(sched.task_map) : sched.task_map[k].image_id = i}) <= 1
          /\ Cardinality({e \in sched.heap : e.image_id = i}) <= 1
    /\ \A t \in Threads : threads[t].at = "exit" =>
          /\ sched = Sequential(threads[t]).s
          /\ threads[t].out = Sequential(threads[t]).out
          /\ NoRepeat(threads[t].out)
          /\ \A k \in 1..Len(threads[t].out) :
                /\ threads[t].out[k] \in Keys(threads[t].snap.task_map)
                /\ threads[t].out[k] \notin Outstanding

\* A thread is in the middle of get_next_batch, one task popped and more to
\* pop, and holds the lock, which keeps the other threads out.
C11_Witness ==
    \E t \in Threads :
        /\ threads[t].op = "get_next_batch"
        /\ threads[t].at = "pop"
        /\ Len(threads[t].out) = 1
        /\ threads[t].arg > 1
        /\ sched.heap # {}
        /\ lock = t
        /\ ~CanEnter(lock)

\* The next statement of the thread inside a method body.
BodyStep(t) == Test(t) \/ Push(t) \/ Loop(t) \/ Rebuild(t) \/ Pop(t) \/ Set(t) \/ Exit(t)

\* C12: the scheduler cannot deadlock: the thread that holds the lock is
\* inside a method body and its next statement can always run (no statement
\* of a body waits for the lock again), a thread outside any method does
\* not hold the lock (every return, early ones included, releases it), and
\* scheduler calls do not reach the event log or the registry.
C12_NoDeadlock ==
    /\ \A t \in Threads : threads[t].at = "idle" => lock # t
    /\ \A t \in Threads : lock = t => threads[t].at # "idle" /\ ENABLED BodyStep(t)
    /\ lock = None => \A t \in Threads : threads[t].at = "idle"
    /\ events = <<>>
    /\ \A i \in Ids : records[i] = Absent

\* A thread holding the lock is about to return early from add_task of an
\* id that was outstanding, while another id is queued.
C12_Witness ==
    \E t \in Threads :
        /\ lock = t
        /\ threads[t].op = "add_task"
        /\ threads[t].at = "exit"
        /\ threads[t].reads = <<>>
        /\ threads[t].arg \in Outstanding
        /\ calls = MaxCalls

\* The priorities after decay has multiplied the first n tasks by v/DecayDen.
DecayFirst(task_map, n, v) ==
    [k \in 1..Len(task_map) |->
        IF k <= n THEN [task_map[k] EXCEPT !.priority = (@ * v) \div DecayDen]
        ELSE task_map[k]]

\* The tasks as the call of l has left them, when every task it has
\* touched so far got the parameter value v.
TouchedWith(l, v) ==
    LET visited == Len(LoopOver(l.snap, l.op, l.arg)) - Len(l.todo)
    IN  CASE l.op = "bump_to_front_batch" ->
                BumpLoop(l.snap.task_map, SubSeq(l.arg, 1, visited), v)
          [] l.op = "decay" -> DecayFirst(l.snap.task_map, visited, v)
          [] l.op = "promote" ->
                IF l.arg \in Keys(l.snap.task_map) /\ l.at # "test"
                THEN BumpLoop(l.snap.task_map, <<l.arg>>, v)
                ELSE l.snap.task_map

ParameterValues(op) ==
    CASE op = "bump_to_front_batch" -> ViewportBoosts
      [] op = "decay" -> DecayNums
      [] op = "promote" -> IntentBoosts

\* C13: the setters are atomic with respect to the queue mutations: while
\* bump_to_front_batch, promote or decay is running no parameter changes,
\* and at every point of the call the tasks it has touched have all got
\* one and the same value of the parameter.
C13_SettersAtomic ==
    \A t \in Threads :
        LET l == threads[t]
        IN  l.op \in {"bump_to_front_batch", "promote", "decay"} =>
               /\ sched.viewport_boost = l.snap.viewport_boost
               /\ sched.intent_boost = l.snap.intent_boost
               /\ sched.decay_factor = l.snap.decay_factor
               /\ \E v \in ParameterValues(l.op) : sched.task_map = TouchedWith(l, v)

\* bump_to_front_batch has boosted one of two outstanding tasks and has the
\* other still to visit, and a call of set_viewport_boost with another
\* value by another thread cannot enter.
C13_Witness ==
    \E t \in Threads : \E u \in Threads \ {t} :
        /\ threads[t].op = "bump_to_front_batch"
        /\ threads[t].at = "loop"
        /\ Len(threads[t].todo) = 1
        /\ Len(threads[t].arg) = NumIds
        /\ Outstanding = Ids
        /\ sched.task_map # threads[t].snap.task_map
        /\ threads[u].at = "idle"
        /\ \E v \in ViewportBoosts \ {sched.viewport_boost} :
              ~ENABLED Enter(u, "set_viewport_boost", v)


\* ------------------------------------------------- the worker's failures
Range(seq) == {seq[k] : k \in 1..Len(seq)}

\* C14: a task whose processing raises does not stop the worker loop: the
\* loop is left only when the interruption was requested; a task leaves
\* the batch only from its head and after its task_started was emitted;
\* after a failure the rest of the batch is worked off; and the loop comes
\* to get_next_batch again unless the user quits.
C14_FailureKeepsLoopRunning ==
    /\ [](wpc = "stopped" => interrupted)
    /\ [][(batch # <<>> /\ batch' # batch)
             => (batch' = Tail(batch) /\ emitted[Head(batch)] # <<>>)]_vars
    /\ (wpc = "except") ~> (batch = <<>>)
    /\ (wpc = "except") ~> (wpc = "pull" \/ interrupted)

\* Every task fails on this engine; the first batch is over and the task
\* that was left in the queue has been pulled and is started.
C14_Witness ==
    /\ engine.expected_in # VectorLen
    /\ wpc = "emit"
    /\ Outstanding = {}
    /\ Len(batch) = 1
    /\ ~interrupted


\* C15: a task whose inference fails on a dimension mismatch gets no result
\* and no second try: with an engine that expects another length than the
\* vectors have, no result_ready is ever emitted and no record becomes DONE;
\* the worker never puts a task back into the scheduler; and from some
\* moment on the record of every task the loop is past is RUNNING for ever.
C15_FailedTaskStaysRunning ==
    /\ [](engine.expected_in # VectorLen
             => /\ \A k \in 1..Len(signals) : signals[k][1] # "result_ready"
                /\ \A i \in ManyIds : records[i] # "DONE")
    /\ [][\A i \in ManyIds : i \notin Outstanding => i \notin Outstanding']_vars
    /\ (engine.expected_in # VectorLen)
          ~> [](\A i \in ManyIds : (i \notin Outstanding /\ i \notin Range(batch))
                                      => records[i] = "RUNNING")

\* A task failed, the loop went on past it and is back at its head, every
\* signal is delivered, and the record is RUNNING.
C15_Witness ==
    /\ engine.expected_in # VectorLen
    /\ wpc = "poll"
    /\ batch = <<>>
    /\ signals = <<>>
    /\ \E i \in ManyIds : i \notin Outstanding /\ records[i] = "RUNNING"


\* C16: an image that cannot be read is processed like any other: the vector
\* the worker passes to infer has the length of an image's vector whether
\* or not the file was read, infer answers the zero vector as it answers
\* pixels, the worker's step from infer on a zero vector that the engine
\* accepts emits result_ready for the task, and from some moment on the
\* record of every task the loop is past, read or not, is DONE.
C16_UnreadableImageIsProcessed ==
    /\ [](wpc = "infer"
             => /\ vec.len = VectorLen
                /\ infer(engine, vec) = infer(engine, load_and_vectorize(TRUE)))
    /\ [][(wpc = "infer" /\ wpc' # "infer" /\ vec.zero /\ engine.expected_in = VectorLen)
             => signals' = Append(signals, <<"result_ready", Head(batch)>>)]_vars
    /\ (engine.expected_in = VectorLen)
          ~> [](\A i \in ManyIds : (i \notin Outstanding /\ i \notin Range(batch))
                                      => records[i] = "DONE")

\* The worker is about to run infer on the zeros of an unreadable image,
\* with the engine main() builds.
C16_Witness ==
    /\ wpc = "infer"
    /\ vec = load_and_vectorize(FALSE)
    /\ engine.expected_in = VectorLen
    /\ Len(signals) < MaxSignals


\* ------------------------------------------------------------ cancellation
\* C17 as stated: once the interruption is requested no new batch is
\* pulled: the batch only loses tasks.
C17_NoBatchAfterRequest ==
    [][interrupted => (batch' = batch \/ (batch # <<>> /\ batch' = Tail(batch)))]_vars

\* C17: the worker reads the interruption flag once per iteration, in the
\* while test.  A test that finds the flag set leaves the loop and pulls
\* nothing; a batch is pulled only by the iteration whose test was passed,
\* and once the flag is set the worker starts no further iteration; every
\* task of the batch leaves it only by being processed, with its result
\* when infer accepts its vector; and the loop exits with the batch worked
\* off.
C17_Cancellation ==
    /\ [][(wpc = "poll" /\ interrupted /\ wpc' # wpc)
             => (wpc' = "stopped" /\ sched' = sched /\ batch' = batch)]_vars
    /\ [][(batch' = batch \/ (batch # <<>> /\ batch' = Tail(batch))) \/ wpc = "pull"]_vars
    /\ [][(interrupted /\ wpc' = "pull") => wpc = "pull"]_vars
    /\ [][(batch # <<>> /\ batch' = Tail(batch))
             => /\ wpc \in {"infer", "except"}
                /\ engine.expected_in = VectorLen
                     => signals' = Append(signals, <<"result_ready", Head(batch)>>)]_vars
    /\ interrupted ~> (wpc = "stopped" /\ batch = <<>>)

\* The interruption was requested after the while test was passed and
\* before get_next_batch, with tasks in the queue.
C17_Witness ==
    /\ interrupted
    /\ wpc = "pull"
    /\ Outstanding # {}


\* --------------------------------------------------- the worker's signals
\* C18: for a task the worker dequeued, task_started is emitted once,
\* result_ready at most once and after task_started; once the loop is past
\* the task both were emitted when the engine accepts the vector, and
\* task_started alone when infer raised.
C18_SignalsOncePerTask ==
    \A i \in ManyIds :
        /\ emitted[i] \in {<<>>, <<"task_started">>, <<"task_started", "result_ready">>}
        /\ (i \notin Outstanding /\ i \notin Range(batch))
              => emitted[i] = IF engine.expected_in = VectorLen
                              THEN <<"task_started", "result_ready">>
                              ELSE <<"task_started">>
        /\ (i \in Range(batch) /\ (i # Head(batch) \/ wpc = "emit")) => emitted[i] = <<>>

\* The worker is past every task it dequeued in two batches, on the engine
\* main() builds.
C18_Witness ==
    /\ engine.expected_in = VectorLen
    /\ wpc = "poll"
    /\ Outstanding = {}
    /\ \A i \in ManyIds : emitted[i] = <<"task_started", "result_ready">>


\* -------------------------------------------------- marks and strategies
\* C19: marking a registered image puts it among get_marked_images, where
\* it stays until it is unmarked, and the step that marks it adds exactly
\* one USER_MARK event for it to the event log.
C19_MarkIsRecorded ==
    [][\A x \in Ids :
          (x \notin get_marked_images /\ x \in get_marked_images')
              => /\ Len(events') = Len(events) + 1
                 /\ events'[Len(events')].event_type = "USER_MARK"
                 /\ events'[Len(events')].image_id = x]_vars

\* C20: a step that changes the active strategy adds one STRATEGY_CHANGED
\* event whose context names the new strategy and gives its description.
C20_StrategyChangeIsRecorded ==
    [][strategy' # strategy
          => /\ Len(events') = Len(events) + 1
             /\ events'[Len(events')].event_type = "STRATEGY_CHANGED"
             /\ DictGet(events'[Len(events')].context, "new_strategy", Unknown)
                    = StrategyOf(strategy').name
             /\ DictGet(events'[Len(events')].context, "description", Unknown)
                    = StrategyOf(strategy').description]_vars


\* C21: asking for a strategy that does not exist changes nothing and gives
\* the active strategy: set_strategy with a type that is not registered
\* returns the strategy that was active and leaves it active, and
\* get_strategy_by_name with a name no strategy has returns the active one.
C21_UnknownStrategyFallsBack ==
    /\ (reply.op = "set_strategy" /\ reply.arg \notin StrategyTypes)
          => (reply.out = reply.was /\ strategy = reply.was)
    /\ (reply.op = "get_strategy_by_name"
           /\ \A t \in StrategyTypes : reply.arg \notin {t, StrategyOf(t).name})
          => (reply.out = reply.was /\ strategy = reply.was)

\* An unknown type was asked for while another strategy than the default
\* was active.
C21_Witness ==
    /\ reply.op = "set_strategy"
    /\ reply.arg = Unknown
    /\ strategy = "aggressive"

\* ------------------------------------------------- queries of the event log
\* C22: get_lifecycle(id) returns one description per event of id, in the
\* order the events were appended, and nothing for other ids: its k-th
\* sentence is the narrative of the k-th event of the log whose subject is
\* id.  When the lifecycle events of an image are appended in their order,
\* with marks of this and other images in between, the sentences of its
\* lifecycle events come in that order.
C22_LifecycleInAppendOrder ==
    LET at(id) == {k \in 1..Len(events) : events[k].image_id = id}
        nth(id, j) == CHOOSE k \in at(id) : Cardinality({m \in at(id) : m <= k}) = j
        story(id) == [j \in 1..Cardinality(at(id)) |-> to_narrative(events[nth(id, j)])]
        life == SelectSeq(get_lifecycle(events, 1), LAMBDA n : n[1] # "USER_MARK")
    IN  /\ \A id \in Ids : get_lifecycle(events, id) = story(id)
        /\ answer.op = "get_lifecycle" => \E id \in Ids : answer.value = story(id)
        /\ \A j \in 1..Len(life) : life[j][1] = Lifecycle[j]

\* The lifecycle of an image was asked for after all six of its lifecycle
\* events were logged with an event of another image in between.
C22_Witness ==
    /\ answer.op = "get_lifecycle"
    /\ Len(events) = Len(Lifecycle) + 1
    /\ Len(answer.value) = Len(Lifecycle)
    /\ answer.value[1][1] = "CREATED"
    /\ answer.value[Len(Lifecycle)][1] = "WRITE_BACK"
    /\ \E k \in 2..Len(Lifecycle) : events[k].image_id # 1

\* C23: get_events_by_type(t) returns exactly the events of the log whose
\* type is t, and get_events_by_image(id) exactly those whose subject is id,
\* each in log order, every matching event once.
C23_FiltersAreExact ==
    LET at(field, value) == {k \in 1..Len(events) : events[k][field] = value}
        nth(S, j) == CHOOSE k \in S : Cardinality({m \in S : m <= k}) = j
        sub(S) == [j \in 1..Cardinality(S) |-> events[nth(S, j)]]
    IN  /\ \A t \in EventTypes :
              get_events_by_type(events, t) = sub(at("event_type", t))
        /\ \A id \in Ids :
              get_events_by_image(events, id) = sub(at("image_id", id))
        /\ answer.op = "get_events_by_type" =>
              \E t \in EventTypes : answer.value = sub(at("event_type", t))
        /\ answer.op = "get_events_by_image" =>
              \E id \in Ids : answer.value = sub(at("image_id", id))

\* The events of one type were asked for from a log in which they are
\* separated by an event of another type.
C23_Witness ==
    /\ answer.op = "get_events_by_type"
    /\ Len(answer.value) >= 2
    /\ \E k \in 2..(Len(events) - 1) :
          /\ events[k].event_type # answer.value[1].event_type
          /\ events[k - 1] = answer.value[1]
          /\ events[k + 1] = answer.value[2]

\* C24: an export that fails returns to its caller like one that succeeds
\* and leaves the log as it was; after it the log still takes an append,
\* and the event appended is put at the end of the same log with a later
\* timestamp than every event before it.
C24_FailedExportIsHarmless ==
    [][ /\ answer'.op = "export_json" => events' = events
        /\ (answer.op = "export_json" /\ answer.value # export_json(events)) =>
              /\ Len(events) < MaxEvents =>
                    ENABLED (\E image_id \in Ids : LogAppend("CREATED", image_id, EmptyContext))
              /\ answer'.op = "append" =>
                    /\ SubSeq(events', 1, Len(events)) = events
                    /\ Len(events') = Len(events) + 1
                    /\ \A k \in 1..Len(events) :
                          events[k].timestamp < events'[Len(events')].timestamp ]_vars

\* An export of a log that holds an event has failed, and the log has room
\* for another event.
C24_Witness ==
    /\ answer.op = "export_json"
    /\ answer.value # export_json(events)
    /\ events # <<>>
    /\ Len(events) < MaxEvents

\* ----------------------------------------------------- registry properties
\* C25: the registry creates a record when a path is added for the first
\* time and never deletes one: no step of the database takes a registered
\* path out of it, adding a path that is not registered gives it a new
\* PENDING record and changes no other record, and adding a registered path
\* changes nothing: its state, timestamps, mark and visibility data stay.
C25_RegistryOnlyGrows ==
    [][ /\ \A p \in Ids : records[p] # Absent => records'[p] # Absent
        /\ reply'.op = "add" =>
              \/ <<records, fields, marked>>' = <<records, fields, marked>>
              \/ \E p \in Ids :
                    /\ records[p] = Absent
                    /\ records' = [records EXCEPT ![p] = "PENDING"]
                    /\ fields' = [fields EXCEPT ![p] = ImageRecord(now)]
                    /\ marked' = marked ]_vars

\* A path was added when every path was registered, past PENDING, marked and
\* had been seen in the viewport.
C25_Witness ==
    /\ reply.op = "add"
    /\ \A p \in Ids :
          /\ records[p] \in {"RUNNING", "DONE"}
          /\ p \in marked
          /\ fields[p].last_visible_enter_time # Never
    /\ \E p \in Ids : fields[p].write_back_at # Never

\* C26: get_statistics reports the counts of the records as they are when
\* it is called: total is the number of records, pending, queued, running
\* and done are the numbers of records in each state and add up to total
\* after every step, and marked is the number of marked records; adding a
\* path that was not registered raises total and pending by one each and
\* no other count, so that n new paths give total = n and pending = n.
C26_StatisticsMatchRecords ==
    /\ [] LET stats == get_statistics(records, marked)
              registered == {p \in Ids : records[p] # Absent}
          IN  /\ reply.op = "get_statistics" => reply.out = stats
              /\ stats.total = Cardinality(registered)
              /\ \A k \in 1..Len(States) :
                    (CASE k = 1 -> stats.pending [] k = 2 -> stats.queued
                       [] k = 3 -> stats.running [] k = 4 -> stats.done)
                      = Cardinality({p \in registered : records[p] = States[k]})
              /\ stats.pending + stats.queued + stats.running + stats.done = stats.total
              /\ stats.marked = Cardinality(marked \cap registered)
    /\ [][ /\ reply'.op = "get_statistics" =>
                  <<records, fields, marked>>' = <<records, fields, marked>>
           /\ (reply'.op = "add" /\ records' # records) =>
                  get_statistics(records', marked') =
                      [get_statistics(records, marked) EXCEPT !.total = @ + 1,
                                                              !.pending = @ + 1] ]_vars

\* The statistics were asked for when every path was registered, one record
\* was QUEUED and marked and another was DONE.
C26_Witness ==
    /\ reply.op = "get_statistics"
    /\ reply.out.total = NumIds
    /\ reply.out.queued >= 1
    /\ reply.out.done >= 1
    /\ reply.out.marked = 1
    /\ \E p \in Ids : records[p] = "QUEUED" /\ p \in marked

\* C27: marks and visibility are apart from the lifecycle.  For a
\* registered path, whatever the state of its record: a step that changes
\* its mark or its visibility data changes neither its state nor its
\* lifecycle timestamps (so a step that changes these changes no mark and no
\* visibility data), a mark and an unmark take effect, and enter_viewport
\* and leave_viewport give a record that is visible and one that is not.
C27_MarksApartFromLifecycle ==
    /\ [] \A p \in Ids : records[p] # Absent =>
              /\ ENABLED (MarkImage(p) /\ p \in marked' /\ fields'[p].marked_at = now)
              /\ ENABLED (UnmarkImage(p) /\ p \notin marked')
              /\ enter_viewport(fields[p], now).currently_visible
              /\ ~leave_viewport(fields[p], now).currently_visible
    /\ [][ \A p \in Ids : records[p] # Absent =>
              LET life(recs, f) == <<recs[p], f[p].created_at, f[p].infer_end_at,
                                     f[p].write_back_at>>
                  side(mk, f) == <<p \in mk, f[p].marked_at, f[p].currently_visible,
                                   f[p].last_visible_enter_time, f[p].visible_times>>
              IN  (side(marked', fields') # side(marked, fields)
                      => life(records', fields') = life(records, fields)) ]_vars

\* A QUEUED record is marked and in the viewport, and a DONE record is
\* marked and has left the viewport after a stay in it.
C27_Witness ==
    \E p, q \in Ids :
        /\ records[p] = "QUEUED"
        /\ p \in marked
        /\ fields[p].currently_visible
        /\ records[q] = "DONE"
        /\ fields[q].write_back_at # Never
        /\ q \in marked
        /\ fields[q].visible_times # <<>>

\* ------------------------------------------- scheduler calls, continued
\* C28: bump_to_front_batch raises the priority of each outstanding task
\* whose id is in the list by viewport_boost, once, however often the list
\* names it, leaves the priority of the other outstanding tasks as it was
\* and leaves the set of outstanding ids as it was.
C28_BumpBoostsOncePerCall ==
    [][last'.op = "bump_to_front_batch" =>
          /\ Keys(sched'.task_map) = Keys(sched.task_map)
          /\ \A id \in Keys(sched.task_map) :
                Get(sched'.task_map, id).priority =
                    Get(sched.task_map, id).priority +
                    (IF id \in Range(last'.arg) THEN sched.viewport_boost * Scale ELSE 0)]_vars

\* C29: calls aimed at nothing do nothing: get_next_task with no task
\* outstanding returns None, get_next_batch(n) with n <= 0 or with no task
\* outstanding returns the empty list, promote of an id that is not
\* outstanding returns, and each leaves the outstanding tasks, their
\* priorities and the order in which they would be dequeued as they were.
C29_NothingToDo ==
    [][ LET same == /\ sched'.task_map = sched.task_map
                    /\ DequeueOrder(sched') = DequeueOrder(sched)
        IN  /\ get_next_batch(sched, -1) = [s |-> sched, out |-> <<>>]
            /\ (last'.op = "get_next_task" /\ Outstanding = {})
                  => (last'.out = <<>> /\ same)
            /\ (last'.op = "get_next_batch" /\ (last'.arg <= 0 \/ Outstanding = {}))
                  => (last'.out = <<>> /\ same)
            /\ (last'.op = "promote" /\ last'.arg \notin Outstanding)
                  => same ]_vars

\* An id without an outstanding task was promoted while tasks of other
\* priorities were outstanding.
C29_Witness ==
    /\ last.op = "promote"
    /\ last.arg \notin last.was
    /\ Outstanding = last.was
    /\ Len(sched.task_map) >= 1
    /\ \E k \in 1..Len(sched.task_map) : sched.task_map[k].priority > 0

\* C30: get_next_batch(n) does what n calls of get_next_task in a row do:
\* it returns the tasks these calls return, None left out, in their order,
\* which are min(n, number of outstanding tasks) tasks, and it leaves the
\* scheduler in the state they leave it in.
C30_BatchIsRepeatedNext ==
    [][last'.op = "get_next_batch" =>
          LET RECURSIVE Calls(_, _, _)
              Calls(s, out, n) ==
                  IF n <= 0 THEN [s |-> s, out |-> out]
                  ELSE LET r == get_next_task(s)
                       IN  Calls(r.s, IF r.task = None THEN out ELSE Append(out, r.task),
                                 n - 1)
              calls_ == Calls(sched, <<>>, last'.arg)
              count == Cardinality(Outstanding)
          IN  /\ last'.out = calls_.out
              /\ sched' = calls_.s
              /\ Len(last'.out) = IF last'.arg < count THEN last'.arg ELSE count]_vars

\* A batch of two emptied a scheduler of two outstanding tasks and gave the
\* task of the second image before the task of the first.
C30_Witness ==
    /\ last.op = "get_next_batch"
    /\ last.arg = 2
    /\ Len(last.out) = 2
    /\ last.out[1] > last.out[2]
    /\ Outstanding = {}

\* C31: after every scheduler operation the heap and task_map agree: the
\* heap holds one entry for each outstanding id and no other entry, so the
\* entry a pop meets first is that of an outstanding task, and a dequeue
\* finds a task whenever one is outstanding.
C31_HeapAgreesWithMap ==
    /\ {e.image_id : e \in sched.heap} = Outstanding
    /\ Cardinality(sched.heap) = Len(sched.task_map)
    /\ sched.heap # {} => HeapMin(sched.heap).image_id \in Outstanding
    /\ Outstanding # {} => get_next_task(sched).task \in Outstanding

\* A task was dequeued after a rebuild of the heap, and another task is
\* left with its one entry.
C31_Witness ==
    /\ last.op = "get_next_task"
    /\ Len(last.out) = 1
    /\ Len(sched.task_map) = 1
    /\ \E e \in sched.heap : e.counter >= 2 /\ e.image_id \in Outstanding
    /\ \E k \in 1..Len(sched.task_map) : sched.task_map[k].priority > 0

\* C32: only add_task adds an outstanding id and only get_next_task and
\* get_next_batch remove one: a step that changes the set of outstanding
\* ids is a step of a thread inside add_task that adds the id it was
\* called with, or of a thread inside a dequeue that removes one id; no
\* step of bump_to_front_batch, promote, decay or a setter changes the set.
C32_OnlyAddAndDequeueChangeTheSet ==
    [][Keys(sched'.task_map) # Keys(sched.task_map) =>
          \E t \in Threads :
              /\ lock = t
              /\ \/ /\ threads[t].op = "add_task"
                    /\ threads[t].arg \notin Keys(sched.task_map)
                    /\ Keys(sched'.task_map) = Keys(sched.task_map) \cup {threads[t].arg}
                 \/ /\ threads[t].op \in {"get_next_task", "get_next_batch"}
                    /\ \E i \in Keys(sched.task_map) :
                          Keys(sched'.task_map) = Keys(sched.task_map) \ {i}]_vars

\* A setter has assigned another decay factor while a task was outstanding,
\* and the task is still outstanding.
C32_Witness ==
    \E t \in Threads :
        /\ threads[t].op = "set_decay_factor"
        /\ threads[t].at = "exit"
        /\ sched.decay_factor # DefaultDecayNum
        /\ Outstanding # {}
        /\ Outstanding = Keys(threads[t].snap.task_map)

\* ------------------------------------------------------------- draining
\* C33: with nothing submitted any more, the worker drains the scheduler
\* unless it is interrupted: a task leaves the scheduler only into the
\* worker's batch and never comes back, so it is dequeued once; and either
\* the interruption is requested or, from some moment on, no task is
\* outstanding, the batch is worked off, the record of every task is
\* RUNNING or DONE, and get_next_batch returns the empty list.
C33_WorkerDrainsTheScheduler ==
    /\ [][ /\ Keys(sched'.task_map) \subseteq Keys(sched.task_map)
           /\ Range(batch') \ Range(batch) =
                  Keys(sched.task_map) \ Keys(sched'.task_map) ]_vars
    /\ \/ <>interrupted
       \/ <>[] /\ Outstanding = {}
               /\ batch = <<>>
               /\ signals = <<>>
               /\ \A i \in DOMAIN records : records[i] \in {"RUNNING", "DONE"}
               /\ get_next_batch(sched, WorkerBatch).out = <<>>

\* The worker, not interrupted, has worked off every task on an engine
\* that refuses the vectors, and polls an empty scheduler.
C33_Witness ==
    /\ ~interrupted
    /\ Outstanding = {}
    /\ batch = <<>>
    /\ signals = <<>>
    /\ wpc = "pull"
    /\ engine.expected_in # VectorLen
    /\ \A i \in DOMAIN records : records[i] = "RUNNING"

\* C34: an image is dispatched to the worker at most once: no step gives
\* an image whose record is RUNNING or DONE a new outstanding task.
C34_DispatchedAtMostOnce ==
    [][\A i \in Ids :
          (records[i] \in {"RUNNING", "DONE"} /\ i \notin Keys(sched.task_map))
              => i \notin Keys(sched'.task_map)]_vars

\* ------------------------------------------------- concurrent appends
\* C35: when several threads call append concurrently, every event that
\* is later in the log has a strictly later timestamp than every event
\* before it.
C35_ConcurrentAppendsStayOrdered ==
    \A j, k \in 1..Len(events) : j < k => events[j].timestamp < events[k].timestamp

C37_WriteBackAndUnknownIds ==
    [][\A p \in Ids :
          /\ (reply'.op = "set_embedding" /\ reply'.arg = p /\ records[p] # Absent) =>
                /\ records' = [records EXCEPT ![p] = "DONE"]
                /\ \A q \in Ids \ {p} : fields'[q] = fields[q]
                /\ fields'[p].write_back_at = now'
                /\ fields'[p].write_back_at \in ClockStep(now) \cup ClockStep(Min(now + 1, MaxTime))
                /\ IF fields[p].infer_end_at # Never
                   THEN fields'[p].infer_end_at = fields[p].infer_end_at
                   ELSE /\ fields'[p].infer_end_at \in ClockStep(now)
                        /\ fields'[p].infer_end_at <= fields'[p].write_back_at
                /\ fields'[p] = [fields[p] EXCEPT !.infer_end_at = fields'[p].infer_end_at,
                                                  !.write_back_at = fields'[p].write_back_at]
          /\ (/\ records[p] = Absent
              /\ \/ reply'.op = "none"
                 \/ reply'.op \in {"set_embedding", "set_state"} /\ reply'.arg = p) =>
                /\ records' = records
                /\ fields' = fields
                /\ marked' = marked
                /\ now' = now
      ]_vars

\* A result was written back for a record that had its infer_end_at from
\* an earlier reading of the clock, while another id was never registered.
C37_Witness ==
    /\ reply.op = "set_embedding"
    /\ records[reply.arg] = "DONE"
    /\ fields[reply.arg].infer_end_at # Never
    /\ fields[reply.arg].infer_end_at < fields[reply.arg].write_back_at
    /\ calls >= 2
    /\ \E q \in Ids : records[q] = Absent

C39_ConservativeSeesAgeOnly ==
    (reply.op = "get_priority_boost" /\ reply.was = "conservative") =>
        LET age == DictGet(reply.arg, "queue_age", 0)
        IN  \A image_id \in Ids :
            \A other \in [viewport_boost : ViewportBoosts, intent_boost : IntentBoosts,
                           is_visible : BOOLEAN, is_marked : BOOLEAN, queue_age : 0..MaxTime] :
               /\ other.queue_age = age =>
                     get_priority_boost("conservative", image_id, other, 0) = reply.out
               /\ other.queue_age >= age =>
                     get_priority_boost("conservative", image_id, other, 0) >= reply.out

\* The Conservative strategy was asked about a marked, visible image that
\* had waited.
C39_Witness ==
    /\ reply.op = "get_priority_boost"
    /\ reply.was = "conservative"
    /\ reply.arg # EmptyContext
    /\ reply.arg.is_visible /\ reply.arg.is_marked
    /\ reply.arg.queue_age > 0
    /\ reply.out > 0

\* C40: strategies do not act on the scheduler.  A step that switches the
\* strategy or computes a boost leaves the scheduler, the clock and the
\* registry as they were; and what a scheduler operation returns and leaves
\* behind is what the scheduler's own state gives, the same whichever
\* strategy is active and whatever was switched before.
C40_StrategiesDoNotAct ==
    /\ [][(\/ strategy' # strategy
            \/ reply'.op # reply.op
            \/ /\ reply'.op \in {"set_strategy", "get_priority_boost"}
               /\ \/ reply'.arg # reply.arg
                  \/ reply'.was # reply.was
                  \/ reply'.out # reply.out) =>
             UNCHANGED <<sched, now, decays, last, records, marked, fields>>]_vars
    /\ [][last' # last =>
             /\ UNCHANGED <<strategy, reply>>
             /\ last'.op = "get_next_task" =>
                   /\ sched' = get_next_task(sched).s
                   /\ last'.out = IF get_next_task(sched).task = None THEN <<>>
                                  ELSE <<get_next_task(sched).task>>
             /\ last'.op = "get_next_batch" =>
                   /\ sched' = get_next_batch(sched, last'.arg).s
                   /\ last'.out = get_next_batch(sched, last'.arg).out
             /\ last'.op = "add_task" =>
                   \E t_init \in ClockStep(now) :
                      sched' = add_task(sched, last'.arg, t_init, now')]_vars

\* The Aggressive strategy is active and has computed a boost, and the
\* scheduler has then returned a batch of two tasks.
C40_Witness ==
    /\ strategy = "aggressive"
    /\ reply.op = "get_priority_boost"
    /\ reply.was = "aggressive"
    /\ reply.arg.is_marked
    /\ reply.out > 0
    /\ last.op = "get_next_batch"
    /\ Len(last.out) = 2


====
